---- MODULE Spec2Model ----
(***************************************************************************)
(* A model of the Mython interpreter: the indentation-sensitive lexer      *)
(* (lexer.h / lexer.cpp), the runtime object model (runtime.h /            *)
(* runtime.cpp) and the AST evaluator (statement.h / statement.cpp).       *)
(*                                                                         *)
(* Each subsystem has its own specification over the shared variables:     *)
(*   LexerSpec   the lexer driven over a bounded family of input texts     *)
(*   EvalSpec    the evaluator driven over a pool of statements            *)
(*   ClassSpec   method lookup over bounded inheritance chains             *)
(*   CaseSpec    the evaluator driven over single statements               *)
(*   TokenSpec   the lexer and its Expect methods over one-line texts      *)
(***************************************************************************)
EXTENDS Integers, Sequences, FiniteSets, TLC

VARIABLES
    \* ---- lexer (class Lexer, lexer.h) ----
    text,           \* the input text as lines: [lines, final_nl] (what input_ was built from)
    input_,         \* std::istream& input_: buffer, read position and state bits
    c_,             \* char c_
    doc_,           \* std::vector<Token> doc_: every token emitted so far
    last_indent_,   \* int last_indent_
    dedent_chain_,  \* bool dedent_chain_
    thrown,         \* the exception that escaped the lexer ("none" if none did)
    constructed,    \* whether Lexer::Lexer has run
    eof_calls,      \* NextToken calls made while the current token was Eof
    expected        \* the Expect<T>(value) / ExpectNext<T>(value) call just made, if any

lexvars == <<text, input_, c_, doc_, last_indent_, dedent_chain_, thrown,
             constructed, eof_calls, expected>>

VARIABLES
    \* ---- runtime classes (class Class, runtime.h) ----
    classes,        \* the Class objects: key -> [name_, methods_, parent]
    lookup          \* the last GetMethod call and the pointer it returned

classvars == <<classes, lookup>>

VARIABLES
    \* ---- evaluator (statement.h) and its Context ----
    closure,        \* runtime::Closure of the program: name -> ObjectHolder
    instances,      \* the ClassInstance objects: id -> [cls_, fields_]
    moved,          \* ClassDefinition nodes whose cls_ holder was moved from
    output,         \* the text written to context.GetOutputStream()
    status,         \* "running", or how the program ended
    done,           \* the statements of the program executed so far
    yielded,        \* the instances NewInstance::Execute returned, in order
    executed        \* the last statement executed and the record of its execution

evalvars == <<closure, instances, moved, output, status, done, yielded,
              executed>>

vars == <<lexvars, classvars, evalvars>>

(***************************************************************************)
(* std::istream over a string buffer, as the lexer uses it.                *)
(***************************************************************************)
NoChar == "\\0"

IStream(buf) ==
    [buf |-> buf, pos |-> 0, eofbit |-> FALSE, failbit |-> FALSE, badbit |-> FALSE]

good(s) == ~(s.eofbit \/ s.failbit \/ s.badbit)

\* input_.get(c): the sentry fails when the stream is not good; at the end of
\* the buffer eofbit and failbit are set and no character is stored.
get(s) ==
    IF ~good(s)
      THEN [s |-> [s EXCEPT !.failbit = TRUE], ok |-> FALSE, ch |-> NoChar]
    ELSE IF s.pos = Len(s.buf)
      THEN [s |-> [s EXCEPT !.eofbit = TRUE, !.failbit = TRUE], ok |-> FALSE, ch |-> NoChar]
    ELSE [s |-> [s EXCEPT !.pos = @ + 1], ok |-> TRUE, ch |-> s.buf[s.pos + 1]]

\* input_.unget(): clears eofbit, then does nothing but set failbit when the
\* stream has failed; at the start of the buffer it sets badbit.
unget(s) ==
    LET t == [s EXCEPT !.eofbit = FALSE]
    IN  IF t.failbit \/ t.badbit THEN [t EXCEPT !.failbit = TRUE]
        ELSE IF t.pos = 0 THEN [t EXCEPT !.badbit = TRUE]
        ELSE [t EXCEPT !.pos = @ - 1]

RECURSIVE UngetN(_, _)
UngetN(s, n) == IF n = 0 THEN s ELSE UngetN(unget(s), n - 1)

\* The index of the first line feed after position p, or 0.
RECURSIVE NextLF(_, _)
NextLF(buf, p) ==
    IF p >= Len(buf) THEN 0
    ELSE IF buf[p + 1] = "\n" THEN p + 1
    ELSE NextLF(buf, p + 1)

\* getline(input_, line_): reads through the next line feed; line_ is never
\* read by the lexer, so only the stream is modelled.
getline(s) ==
    IF ~good(s) THEN [s EXCEPT !.failbit = TRUE]
    ELSE LET lf == NextLF(s.buf, s.pos)
         IN  IF lf # 0 THEN [s EXCEPT !.pos = lf]
             ELSE [s EXCEPT !.pos = Len(s.buf), !.eofbit = TRUE,
                            !.failbit = (s.pos = Len(s.buf))]

(***************************************************************************)
(* Tokens (namespace token_type) and character classes.                    *)
(***************************************************************************)
Tok(type) == [type |-> type, value |-> <<>>]
TokV(type, value) == [type |-> type, value |-> value]
Is(token, type) == token.type = type

lang_chars == {".", ",", "(", ")", "*", "/", "+", "-", ":", ";"}
marks_chars == {",", "(", ")", "*", "/", "+", "-", ":", ";"}
Digits == {"0", "1", "2", "3", "4", "5", "6", "7", "8", "9"}
isdigit(c) == c \in Digits
Letters ==
    {"a", "b", "c", "d", "e", "f", "g", "h", "i", "j", "k", "l", "m", "n", "o",
     "p", "q", "r", "s", "t", "u", "v", "w", "x", "y", "z",
     "A", "B", "C", "D", "E", "F", "G", "H", "I", "J", "K", "L", "M", "N", "O",
     "P", "Q", "R", "S", "T", "U", "V", "W", "X", "Y", "Z"}
\* c_ == 95 || (c_ > 64 && c_ < 91) || (c_ > 96 && c_ < 123)
IsIdStart(c) == c = "_" \/ c \in Letters

DigitVal(c) ==
    CASE c = "0" -> 0 [] c = "1" -> 1 [] c = "2" -> 2 [] c = "3" -> 3 [] c = "4" -> 4
      [] c = "5" -> 5 [] c = "6" -> 6 [] c = "7" -> 7 [] c = "8" -> 8 [] c = "9" -> 9

\* std::stoi on a run of digits.
RECURSIVE stoi(_)
stoi(digits) ==
    IF digits = <<>> THEN 0
    ELSE 10 * stoi(SubSeq(digits, 1, Len(digits) - 1)) + DigitVal(digits[Len(digits)])

IntMax == 2147483647

(***************************************************************************)
(* The lexer's methods, as functions of the lexer object L.                *)
(***************************************************************************)
Throw(L, what) == [L EXCEPT !.thrown = what]

\* doc_.emplace_back(token)
Emit(L, token) == [L EXCEPT !.doc_ = Append(@, token)]

\* last_indent_++; doc_.emplace_back(token_type::Indent{})
EmitIndent(L) == Emit([L EXCEPT !.last_indent_ = @ + 1], Tok("Indent"))

\* A Dedent emitted without closing the indent level.
EmitDedentKeepingLevel(L) == [L EXCEPT !.doc_ = Append(@, [type |-> "Dedent", value |-> <<>>])]

\* last_indent_--; doc_.emplace_back(token_type::Dedent{})
EmitDedent(L) == Emit([L EXCEPT !.last_indent_ = @ - 1], Tok("Dedent"))

\* doc_.at(doc_.size() - 1); the callers test doc_ for emptiness first, where
\* at() throws std::out_of_range.
CurrentToken(L) == L.doc_[Len(L.doc_)]

RECURSIVE RemoveSpaces(_)
RemoveSpaces(L) ==
    LET g == get(L.input_)
    IN  IF ~g.ok THEN [L EXCEPT !.input_ = g.s]
        ELSE IF g.ch # " " THEN [L EXCEPT !.input_ = unget(g.s), !.c_ = g.ch]
        ELSE RemoveSpaces([L EXCEPT !.input_ = g.s, !.c_ = g.ch])

RemoveComment(L) == [L EXCEPT !.input_ = getline(@)]

RECURSIVE RemoveEmptyLinesFrom(_, _)
RemoveEmptyLinesFrom(L, space_count) ==
    LET g == get(L.input_)
        M == [L EXCEPT !.input_ = g.s, !.c_ = g.ch]
    IN  IF ~g.ok THEN [L EXCEPT !.input_ = g.s]
        ELSE IF g.ch = "#"
          THEN RemoveEmptyLinesFrom([M EXCEPT !.input_ = getline(@)], space_count)
        ELSE IF g.ch # " " /\ g.ch # "\n"
          THEN [M EXCEPT !.input_ = UngetN(@, space_count + 1)]
        ELSE IF g.ch = "\n" THEN RemoveEmptyLinesFrom(M, 0)
        ELSE RemoveEmptyLinesFrom(M, space_count + 1)

RemoveEmptyLines(L) == RemoveEmptyLinesFrom(L, 0)

\* next_c is read uninitialised when the get fails: eq_garbage is whether the
\* indeterminate value compares equal to '='.
GetEqLexeme(L, eq_garbage) ==
    LET g == get(L.input_)
        M == [L EXCEPT !.input_ = g.s]
        is_eq == IF g.ok THEN g.ch = "=" ELSE eq_garbage
    IN  IF is_eq
          THEN RemoveSpaces(Emit(M,
                 CASE L.c_ = "=" -> Tok("Eq")
                   [] L.c_ = "!" -> Tok("NotEq")
                   [] L.c_ = "<" -> Tok("LessOrEq")
                   [] L.c_ = ">" -> Tok("GreaterOrEq")))
          ELSE RemoveSpaces(Emit([M EXCEPT !.input_ = unget(@)], TokV("Char", L.c_)))

GetCharLexeme(L) == RemoveSpaces(Emit(L, TokV("Char", L.c_)))

RECURSIVE GetStringLexemeFrom(_, _, _)
GetStringLexemeFrom(L, string_lexeme, end_marker) ==
    LET g == get(L.input_)
        M == [L EXCEPT !.input_ = g.s, !.c_ = g.ch]
    IN  IF ~g.ok THEN Throw([L EXCEPT !.input_ = g.s], "LexerError")
        ELSE IF g.ch # end_marker
          THEN IF g.ch = "\\"
                 THEN LET h == get(M.input_)
                          e == IF h.ok THEN h.ch ELSE M.c_
                          x == IF e = "n" THEN "\n" ELSE IF e = "t" THEN "\t" ELSE e
                      IN  GetStringLexemeFrom([M EXCEPT !.input_ = h.s, !.c_ = x],
                                              Append(string_lexeme, x), end_marker)
                 ELSE GetStringLexemeFrom(M, Append(string_lexeme, g.ch), end_marker)
        ELSE IF g.ch = "\n" THEN Throw(M, "LexerError")
        ELSE RemoveSpaces(Emit(M, TokV("String", string_lexeme)))

GetStringLexeme(L) == GetStringLexemeFrom(L, <<>>, L.c_)

\* The digits of the literal and the stream after the scanning loop.
RECURSIVE GetNumberLexemeFrom(_, _)
GetNumberLexemeFrom(L, number_lexeme) ==
    LET g == get(L.input_)
        M == [L EXCEPT !.input_ = g.s, !.c_ = g.ch]
        Finish(K) ==
            IF stoi(number_lexeme) > IntMax THEN Throw(K, "out_of_range")
            ELSE RemoveSpaces(Emit([K EXCEPT !.input_ = unget(@)],
                                   TokV("Number", stoi(number_lexeme))))
    IN  IF ~g.ok THEN Finish([L EXCEPT !.input_ = g.s])
        ELSE IF g.ch # " " /\ g.ch # "#" /\ g.ch # "\n" /\ g.ch \notin marks_chars
          THEN IF isdigit(g.ch)
                 THEN GetNumberLexemeFrom(M, Append(number_lexeme, g.ch))
                 ELSE Throw(M, "LexerError")
        ELSE Finish(M)

GetNumberLexeme(L) == GetNumberLexemeFrom(L, <<L.c_>>)

KeywordToken(str_lexeme) ==
    CASE str_lexeme = <<"c", "l", "a", "s", "s">> -> Tok("Class")
      [] str_lexeme = <<"r", "e", "t", "u", "r", "n">> -> Tok("Return")
      [] str_lexeme = <<"i", "f">> -> Tok("If")
      [] str_lexeme = <<"e", "l", "s", "e">> -> Tok("Else")
      [] str_lexeme = <<"d", "e", "f">> -> Tok("Def")
      [] str_lexeme = <<"p", "r", "i", "n", "t">> -> Tok("Print")
      [] str_lexeme = <<"a", "n", "d">> -> Tok("And")
      [] str_lexeme = <<"o", "r">> -> Tok("Or")
      [] str_lexeme = <<"n", "o", "t">> -> Tok("Not")
      [] str_lexeme = <<"N", "o", "n", "e">> -> Tok("None")
      [] str_lexeme = <<"T", "r", "u", "e">> -> Tok("True")
      [] str_lexeme = <<"F", "a", "l", "s", "e">> -> Tok("False")
      [] OTHER -> TokV("Id", str_lexeme)

RECURSIVE GetIdOrKeyLexemeFrom(_, _)
GetIdOrKeyLexemeFrom(L, str_lexeme) ==
    LET g == get(L.input_)
        M == [L EXCEPT !.input_ = g.s, !.c_ = g.ch]
    IN  IF ~g.ok
          THEN RemoveSpaces(Emit([L EXCEPT !.input_ = g.s], KeywordToken(str_lexeme)))
        ELSE IF g.ch # " " /\ g.ch # "#" /\ g.ch # "\n" /\ g.ch \notin lang_chars
          THEN GetIdOrKeyLexemeFrom(M, Append(str_lexeme, g.ch))
        ELSE RemoveSpaces(Emit([M EXCEPT !.input_ = unget(@)], KeywordToken(str_lexeme)))

GetIdOrKeyLexeme(L) == GetIdOrKeyLexemeFrom(L, <<L.c_>>)

\* How many characters IsIndentLexeme puts back before it emits a Dedent.
DedentUngets(indent_count, last_indent) ==
    IF indent_count \div 2 + 1 # last_indent THEN 3 ELSE 1

\* The result is [L, result]: the lexer after the call and the bool returned.
RECURSIVE IsIndentLexemeFrom(_, _)
IsIndentLexemeFrom(L, indent_count) ==
    LET g == get(L.input_)
        M == [L EXCEPT !.input_ = g.s, !.c_ = g.ch]
    IN  IF ~g.ok THEN [L |-> [L EXCEPT !.input_ = g.s], result |-> FALSE]
        ELSE IF g.ch = " "
          THEN IF (indent_count + 1) \div 2 - 1 = L.last_indent_
                 THEN [L |-> EmitIndent(M), result |-> TRUE]
                 ELSE IsIndentLexemeFrom(M, indent_count + 1)
        ELSE IF indent_count \div 2 = L.last_indent_
          THEN [L |-> M, result |-> FALSE]
        ELSE [L |-> EmitDedent([M EXCEPT !.input_ =
                        UngetN(@, DedentUngets(indent_count, L.last_indent_))]),
              result |-> TRUE]

IsIndentLexeme(L) == IsIndentLexemeFrom(L, 1)

\* ParseNextToken from its line 125 on: the lexeme that starts with c_.
ParseLexeme(L, eq_garbage) ==
    IF L.c_ \in {"=", "!", "<", ">"} THEN GetEqLexeme(L, eq_garbage)
    ELSE IF L.c_ \in lang_chars THEN GetCharLexeme(L)
    ELSE IF L.c_ = "'" \/ L.c_ = "\"" THEN GetStringLexeme(L)
    ELSE IF isdigit(L.c_) THEN GetNumberLexeme(L)
    ELSE IF IsIdStart(L.c_) THEN GetIdOrKeyLexeme(L)
    ELSE Throw(L, "LexerError")

ParseNextToken(L, eq_garbage) ==
    IF L.c_ = "#"
      THEN LET R == RemoveComment(L)
           IN  IF R.doc_ = <<>> THEN Throw(R, "out_of_range")
               ELSE IF ~Is(CurrentToken(R), "Newline") THEN Emit(R, Tok("Newline"))
               ELSE ParseLexeme(R, eq_garbage)
    ELSE IF L.c_ = "\n" THEN Emit(L, Tok("Newline"))
    ELSE ParseLexeme(L, eq_garbage)

\* The end of input without the test that Eof is already the current token.
NextTokenAtEndAppending(L) ==
    IF L.last_indent_ > 0 THEN EmitDedent(L)
    ELSE IF L.doc_ # <<>> /\ ~Is(CurrentToken(L), "Newline")
                          /\ ~Is(CurrentToken(L), "Eof")
                          /\ ~Is(CurrentToken(L), "Dedent")
      THEN Emit(L, Tok("Newline"))
    ELSE Emit(L, Tok("Eof"))

\* NextToken when input_.get(c_) fails (lines 154-172).
NextTokenAtEnd(L) ==
    IF L.last_indent_ > 0 THEN EmitDedent(L)
    ELSE IF L.doc_ # <<>>
      THEN IF /\ ~Is(CurrentToken(L), "Newline")
              /\ ~Is(CurrentToken(L), "Eof")
              /\ ~Is(CurrentToken(L), "Dedent")
             THEN Emit(L, Tok("Newline"))
           ELSE IF ~Is(CurrentToken(L), "Eof") THEN Emit(L, Tok("Eof"))
           ELSE L
    ELSE Emit(L, Tok("Eof"))

NextToken(L, eq_garbage) ==
    LET A == IF L.doc_ = <<>> \/ Is(CurrentToken(L), "Newline")
               THEN RemoveEmptyLines(L) ELSE L
        g == get(A.input_)
        B == [A EXCEPT !.input_ = g.s, !.c_ = IF g.ok THEN g.ch ELSE @]
    IN  IF g.ok
          THEN IF g.ch = " " /\ B.doc_ = <<>> THEN Throw(B, "out_of_range")
               ELSE IF g.ch = " " /\ Is(CurrentToken(B), "Newline")
                 THEN LET r == IsIndentLexeme(B)
                      IN  IF r.result THEN r.L
                          ELSE ParseNextToken([r.L EXCEPT !.dedent_chain_ = FALSE],
                                              eq_garbage)
               ELSE IF /\ g.ch # " "
                       /\ B.last_indent_ > 0
                       /\ (Is(CurrentToken(B), "Newline") \/ B.dedent_chain_)
                 THEN EmitDedent([B EXCEPT !.dedent_chain_ = TRUE,
                                           !.input_ = unget(@)])
               ELSE ParseNextToken([B EXCEPT !.dedent_chain_ = FALSE], eq_garbage)
          ELSE NextTokenAtEnd(B)

(***************************************************************************)
(* The input texts.  A text is a staircase of content lines indented by    *)
(* 0, 2, 4, ... spaces (the only way to open several blocks), followed by  *)
(* free lines: a content line behind any number of spaces up to two levels *)
(* past the staircase, a comment line or a line of spaces only.  The last  *)
(* line may or may not end in a line feed.                                 *)
(***************************************************************************)
MaxStair == 4
MaxTail == 2

ContentBody == <<"a">>
CommentBody == <<"#", "c">>
BlankBody == <<>>
IsContent(line) == line.body = ContentBody

RECURSIVE Stair(_)
Stair(n) ==
    IF n = 0 THEN <<>> ELSE Append(Stair(n - 1), [sp |-> 2 * (n - 1), body |-> ContentBody])

FreeLines(n) ==
    [sp : 0 .. 2 * n + 2, body : {ContentBody}]
      \cup [sp : {0, 1, 2}, body : {CommentBody}]
      \cup [sp : {0, 2}, body : {BlankBody}]

\* The texts with a staircase of n lines and k free lines.
Texts(n, k) ==
    {[lines |-> Stair(n) \o t, final_nl |-> nl] :
        t \in [1 .. k -> FreeLines(n)], nl \in BOOLEAN}

RECURSIVE Spaces(_)
Spaces(n) == IF n = 0 THEN <<>> ELSE <<" ">> \o Spaces(n - 1)

\* The characters of a text.
RECURSIVE Chars(_, _)
Chars(lines, final_nl) ==
    IF lines = <<>> THEN <<>>
    ELSE Spaces(Head(lines).sp) \o Head(lines).body
         \o (IF Len(lines) > 1 \/ final_nl THEN <<"\n">> ELSE <<>>)
         \o Chars(Tail(lines), final_nl)

(***************************************************************************)
(* Each specification drives one subsystem; the variables of the other     *)
(* subsystems rest at these values.                                        *)
(***************************************************************************)
\* ObjectHolder::None(): the empty holder.
None == [k |-> "None", v |-> 0]

\* (const Method*) nullptr
NullMethod == [cls |-> "", idx |-> 0]

NoLookup == [variant |-> "none", cls |-> "", name |-> "", result |-> NullMethod]

\* No Expect or ExpectNext call was made.
NoExpect == [fn |-> "none", T |-> "", value |-> <<>>]

NoExecution ==
    [stmt |-> 0, sig |-> "none", val |-> None, out |-> "", log |-> <<>>,
     before |-> <<>>]

LexerIdle ==
    /\ text = [lines |-> <<>>, final_nl |-> FALSE]
    /\ input_ = IStream(<<>>)
    /\ c_ = NoChar
    /\ doc_ = <<>>
    /\ last_indent_ = 0
    /\ dedent_chain_ = FALSE
    /\ thrown = "none"
    /\ constructed = FALSE
    /\ eof_calls = 0
    /\ expected = NoExpect

ClassIdle ==
    /\ classes = <<>>
    /\ lookup = NoLookup

EvalIdle ==
    /\ closure = <<>>
    /\ instances = <<>>
    /\ moved = {}
    /\ output = ""
    /\ status = "idle"
    /\ done = {}
    /\ yielded = <<>>
    /\ executed = NoExecution

(***************************************************************************)
(* The lexer as a state machine.                                           *)
(***************************************************************************)
LexerObject ==
    [input_ |-> input_, c_ |-> c_, doc_ |-> doc_, last_indent_ |-> last_indent_,
     dedent_chain_ |-> dedent_chain_, thrown |-> thrown]

SetLexer(L) ==
    /\ input_' = L.input_
    /\ c_' = L.c_
    /\ doc_' = L.doc_
    /\ last_indent_' = L.last_indent_
    /\ dedent_chain_' = L.dedent_chain_
    /\ thrown' = L.thrown

AtEof == doc_ # <<>> /\ Is(doc_[Len(doc_)], "Eof")

MaxEofCalls == 2

LexerInit ==
    /\ \E n \in 0 .. MaxStair, k \in 0 .. MaxTail : text \in Texts(n, k)
    /\ input_ = IStream(Chars(text.lines, text.final_nl))
    /\ c_ = NoChar
    /\ doc_ = <<>>
    /\ last_indent_ = 0
    /\ dedent_chain_ = FALSE
    /\ thrown = "none"
    /\ constructed = FALSE
    /\ eof_calls = 0
    /\ expected = NoExpect
    /\ ClassIdle
    /\ EvalIdle

\* Lexer::Lexer(std::istream&): parses the first token.
LexerNew ==
    /\ ~constructed
    /\ constructed' = TRUE
    /\ \E L \in {NextToken(LexerObject, eq_garbage) : eq_garbage \in BOOLEAN} :
          SetLexer(L)
    /\ UNCHANGED <<text, eof_calls, expected>>
    /\ UNCHANGED <<classvars, evalvars>>

\* A call of Lexer::NextToken by the parser.
NextTokenCall ==
    /\ constructed
    /\ thrown = "none"
    /\ AtEof => eof_calls < MaxEofCalls
    /\ \E L \in {NextToken(LexerObject, eq_garbage) : eq_garbage \in BOOLEAN} :
          SetLexer(L)
    /\ eof_calls' = IF AtEof THEN eof_calls + 1 ELSE eof_calls
    /\ expected' = NoExpect
    /\ UNCHANGED <<text, constructed>>
    /\ UNCHANGED <<classvars, evalvars>>

\* The lexer run to the end on the characters buf: the state once Eof is the
\* current token or an exception has escaped.
RECURSIVE LexRun(_)
LexRun(L) ==
    IF L.thrown # "none" THEN L
    ELSE IF L.doc_ # <<>> /\ Is(CurrentToken(L), "Eof") THEN L
    ELSE LexRun(NextToken(L, FALSE))

NewLexer(buf) ==
    [input_ |-> IStream(buf), c_ |-> NoChar, doc_ |-> <<>>, last_indent_ |-> 0,
     dedent_chain_ |-> FALSE, thrown |-> "none"]

LexAll(buf) == LexRun(NewLexer(buf))

LexerNext == LexerNew \/ NextTokenCall

LexerSpec == LexerInit /\ [][LexerNext]_vars

(***************************************************************************)
(* Properties of the lexer.                                                *)
(***************************************************************************)
CountIn(tokens, type) == Cardinality({i \in 1 .. Len(tokens) : tokens[i].type = type})

TypesOf(tokens) == [i \in 1 .. Len(tokens) |-> tokens[i].type]

\* The indent level the tokens doc_[1..p] leave open.
LevelAt(p) ==
    CountIn(SubSeq(doc_, 1, p), "Indent") - CountIn(SubSeq(doc_, 1, p), "Dedent")

\* The positions in doc_ of the content tokens, in order.
IdPositions ==
    SelectSeq([i \in 1 .. Len(doc_) |-> i], LAMBDA i : doc_[i].type = "Id")
NumIds == Len(IdPositions)

\* The token types strictly between the content tokens of lines j and k.
Between(j, k) ==
    TypesOf(SubSeq(doc_, IdPositions[j] + 1, IdPositions[k] - 1))

RECURSIVE Repeat(_, _)
Repeat(x, n) == IF n <= 0 THEN <<>> ELSE <<x>> \o Repeat(x, n - 1)

\* A text of content lines only, the first at column 0, each indented by an
\* even number of spaces.
PlainText ==
    /\ text.lines # <<>>
    /\ text.lines[1].sp = 0
    /\ \A i \in 1 .. Len(text.lines) :
          IsContent(text.lines[i]) /\ text.lines[i].sp % 2 = 0

NewLevel(k) == text.lines[k].sp \div 2

\* C1: after every NextToken call that does not raise, the Indent tokens
\* emitted so far are as many as the Dedent tokens emitted so far plus
\* last_indent_; once Eof is emitted every Indent has its Dedent.
C1_IndentBalance ==
    thrown = "none" =>
        /\ CountIn(doc_, "Indent") = CountIn(doc_, "Dedent") + last_indent_
        /\ AtEof => CountIn(doc_, "Indent") = CountIn(doc_, "Dedent")

C1_Witness ==
    /\ thrown = "none"
    /\ AtEof
    /\ CountIn(doc_, "Indent") >= 3
    /\ CountIn(doc_, "Dedent") >= 3

\* C2: a line whose level s/2 is below the current level is preceded by
\* exactly level - s/2 Dedent tokens and leaves the level at s/2, without an
\* error, whatever the two levels are.
C2_DedentToAnyLevel ==
    PlainText =>
      \A k \in 2 .. Len(text.lines) :
        (NumIds >= k - 1 /\ NewLevel(k) < LevelAt(IdPositions[k - 1])) =>
            /\ ~(thrown # "none" /\ NumIds = k - 1)
            /\ NumIds >= k =>
                 /\ Between(k - 1, k) = <<"Newline">> \o
                      Repeat("Dedent", LevelAt(IdPositions[k - 1]) - NewLevel(k))
                 /\ (IdPositions[k] = Len(doc_) => last_indent_ = NewLevel(k))

\* C3: a line whose level s/2 is above the current level is preceded by
\* exactly s/2 - level Indent tokens and leaves the level at s/2, without an
\* error, also when the step is more than one level.
C3_IndentByAnyStep ==
    PlainText =>
      \A k \in 2 .. Len(text.lines) :
        (NumIds >= k - 1 /\ NewLevel(k) > LevelAt(IdPositions[k - 1])) =>
            /\ ~(thrown # "none" /\ NumIds = k - 1)
            /\ NumIds >= k =>
                 /\ Between(k - 1, k) = <<"Newline">> \o
                      Repeat("Indent", NewLevel(k) - LevelAt(IdPositions[k - 1]))
                 /\ (IdPositions[k] = Len(doc_) => last_indent_ = NewLevel(k))

\* C4: when the input ends right after a content token, the lexer emits a
\* Newline, then one Dedent for each open indent level, then Eof, at every
\* indent level.
C4_EndOfInput ==
    (PlainText /\ ~text.final_nl /\ AtEof /\ NumIds = Len(text.lines)) =>
        LET last == IdPositions[NumIds]
        IN  TypesOf(SubSeq(doc_, last + 1, Len(doc_))) =
                <<"Newline">> \o Repeat("Dedent", LevelAt(last)) \o <<"Eof">>

\* C5: Eof is unique and last, every call before Eof either appends exactly
\* one token or raises, and a NextToken call made once the current token is
\* Eof returns Eof and appends nothing.
EofOnlyLast ==
    \A i \in 1 .. Len(doc_) : doc_[i].type = "Eof" => i = Len(doc_)

C5_EofAbsorbing ==
    /\ [](EofOnlyLast)
    /\ [][/\ AtEof => (doc_' = doc_ /\ thrown' = "none")
          /\ ~AtEof => (thrown' # "none" \/ Len(doc_') = Len(doc_) + 1)]_vars

C5_Witness ==
    /\ AtEof
    /\ eof_calls >= 2
    /\ Len(doc_) > 3
    /\ CountIn(doc_, "Eof") = 1

\* The characters of a text with every comment line and every line of
\* spaces only deleted (a deleted line goes with its own line feed).
RECURSIVE StrippedChars(_, _)
StrippedChars(lines, final_nl) ==
    IF lines = <<>> THEN <<>>
    ELSE (IF IsContent(Head(lines))
            THEN Spaces(Head(lines).sp) \o Head(lines).body
                 \o (IF Len(lines) > 1 \/ final_nl THEN <<"\n">> ELSE <<>>)
            ELSE <<>>)
         \o StrippedChars(Tail(lines), final_nl)

LexerDone == AtEof \/ thrown # "none"

\* C6: comment lines and lines of spaces only produce no tokens: the tokens of
\* a text are those of the text with these lines deleted.
C6_BlankLinesSkipped ==
    LexerDone =>
        LET stripped == LexAll(StrippedChars(text.lines, text.final_nl))
        IN  /\ doc_ = stripped.doc_
            /\ thrown = stripped.thrown

(***************************************************************************)
(* The runtime object model (runtime.h, runtime.cpp).                      *)
(*                                                                         *)
(* An ObjectHolder is modelled by what it refers to: [k, v] with k the     *)
(* dynamic type of the object and v its value (Number, String, Bool), the  *)
(* key of the Class object, or the id of the ClassInstance object.         *)
(* Mython strings, names and the output stream are strings.                *)
(***************************************************************************)
Number(n) == [k |-> "Number", v |-> n]
String(s) == [k |-> "String", v |-> s]
Bool(b) == [k |-> "Bool", v |-> b]
ClassObject(c) == [k |-> "Class", v |-> c]
Instance(id) == [k |-> "Instance", v |-> id]

\* ObjectHolder::TryAs<T>() != nullptr
TryAs(h, T) == h.k = T

Min(S) == CHOOSE x \in S : \A y \in S : x <= y
Max(S) == CHOOSE x \in S : \A y \in S : x >= y
Range(seq) == {seq[i] : i \in 1 .. Len(seq)}

\* C++ integer division truncates towards zero.
TruncDiv(a, b) ==
    LET abs(x) == IF x < 0 THEN -x ELSE x
        q == abs(a) \div abs(b)
    IN  IF (a < 0) = (b < 0) THEN q ELSE -q

\* runtime::IsTrue
IsTrue(object) ==
    IF TryAs(object, "Number") THEN object.v # 0
    ELSE IF TryAs(object, "String") THEN object.v # ""
    ELSE IF TryAs(object, "Bool") THEN object.v
    ELSE FALSE

\* struct Method and the Class constructor arguments.
Method(name, formal_params, body) ==
    [name |-> name, formal_params |-> formal_params, body |-> body]

Class(name, methods, parent) ==
    [name_ |-> name, methods_ |-> methods, parent |-> parent]

\* (const Class*) nullptr as the parent argument.
NoClass == ""

\* Class::Class (runtime.cpp): parent_ is the parent, or this for a base class.
parent_(cls) ==
    IF classes[cls].parent # NoClass THEN classes[cls].parent ELSE cls

\* What a const Method* points at.
Deref(method_ptr) == classes[method_ptr.cls].methods_[method_ptr.idx]

\* Class::GetMethod (runtime.cpp): the first own method of that name, else
\* the parent's answer, else nullptr.
RECURSIVE GetMethod(_, _)
GetMethod(cls, name) ==
    LET own == {i \in 1 .. Len(classes[cls].methods_) :
                    classes[cls].methods_[i].name = name}
    IN  IF own # {} THEN [cls |-> cls, idx |-> Min(own)]
        ELSE IF parent_(cls) # cls THEN GetMethod(parent_(cls), name)
        ELSE NullMethod

\* Class::Class (index variant): methods_parts_ maps a name to the last
\* method of that name among the parent's methods_, overwritten by the last
\* of that name among the class's own methods_.
methods_parts_(cls) ==
    LET LastOf(c, name) ==
            Max({i \in 1 .. Len(classes[c].methods_) :
                    classes[c].methods_[i].name = name})
        Names(c) == {classes[c].methods_[i].name :
                        i \in 1 .. Len(classes[c].methods_)}
        par == classes[cls].parent
        inherited == IF par # NoClass THEN Names(par) ELSE {}
    IN  [name \in inherited \cup Names(cls) |->
            IF name \in Names(cls)
            THEN [cls |-> cls, idx |-> LastOf(cls, name)]
            ELSE [cls |-> par, idx |-> LastOf(par, name)]]

\* Class::GetMethod (index variant).
GetMethodByIndex(cls, name) ==
    IF name \in DOMAIN methods_parts_(cls)
    THEN methods_parts_(cls)[name]
    ELSE NullMethod

\* cls or one of its ancestors has a method of the name with n parameters.
RECURSIVE ArityOnPath(_, _, _)
ArityOnPath(cls, name, n) ==
    \/ \E i \in 1 .. Len(classes[cls].methods_) :
          /\ classes[cls].methods_[i].name = name
          /\ Len(classes[cls].methods_[i].formal_params) = n
    \/ classes[cls].parent # NoClass /\ ArityOnPath(classes[cls].parent, name, n)

\* ClassInstance::HasMethod resolving by name and number of parameters.
HasMethodOnPath(cls_, method, argument_count) ==
    ArityOnPath(cls_, method, argument_count)

\* ClassInstance::HasMethod comparing the sizes with >=.
HasMethodAtMostArity(cls_, method, argument_count) ==
    /\ GetMethod(cls_, method) # NullMethod
    /\ Len(Deref(GetMethod(cls_, method)).formal_params) >= argument_count

\* ClassInstance::HasMethod
HasMethod(cls_, method, argument_count) ==
    /\ GetMethod(cls_, method) # NullMethod
    /\ Len(Deref(GetMethod(cls_, method)).formal_params) = argument_count

(***************************************************************************)
(* The AST (statement.h).  A node is a record: t names its class, the      *)
(* other fields are its members.  A NewInstance node owns the              *)
(* ClassInstance object `id` (its member class_instance_); a               *)
(* ClassDefinition node is known by `id` too.                              *)
(***************************************************************************)
NumericConst(n) == [t |-> "NumericConst", value_ |-> Number(n)]
StringConst(s) == [t |-> "StringConst", value_ |-> String(s)]
BoolConst(b) == [t |-> "BoolConst", value_ |-> Bool(b)]
NoneConst == [t |-> "None"]
VariableValue(dotted_ids) == [t |-> "VariableValue", dotted_ids_ |-> dotted_ids]
Assignment(var, rv) == [t |-> "Assignment", var_ |-> var, rv_ |-> rv]
FieldAssignment(object, field_name, rv) ==
    [t |-> "FieldAssignment", object_ |-> object, field_name_ |-> field_name,
     rv_ |-> rv]
PrintStatement(args) == [t |-> "Print", args_ |-> args]
MethodCall(object, method, args) ==
    [t |-> "MethodCall", object_ |-> object, method_ |-> method, args_ |-> args]
NewInstance(id, args) == [t |-> "NewInstance", id |-> id, args_ |-> args]
Stringify(argument) == [t |-> "Stringify", argument_ |-> argument]
BinaryOperation(t, lhs, rhs) == [t |-> t, lhs_ |-> lhs, rhs_ |-> rhs]
Not(argument) == [t |-> "Not", argument_ |-> argument]
Comparison(cmp, lhs, rhs) ==
    [t |-> "Comparison", cmp_ |-> cmp, lhs_ |-> lhs, rhs_ |-> rhs]
Compound(args) == [t |-> "Compound", args_ |-> args]
Return(statement) == [t |-> "Return", statement_ |-> statement]
ClassDefinition(id, cls) == [t |-> "ClassDefinition", id |-> id, cls_ |-> cls]
IfElse(condition, if_body, else_body) ==
    [t |-> "IfElse", condition_ |-> condition, if_body_ |-> if_body,
     else_body_ |-> else_body]
MethodBody(body) == [t |-> "MethodBody", body_ |-> body]

\* (Statement*) nullptr, for IfElse without else.
NullStatement == [t |-> "nullptr"]

ADD_METHOD == "__add__"
INIT_METHOD == "__init__"

(***************************************************************************)
(* Execute.  One call takes the closure and the state `st` reachable       *)
(* through the Context and the object graph:                               *)
(*   st.inst   the ClassInstance objects                                   *)
(*   st.moved  the ClassDefinition nodes already moved from                *)
(*   st.out    the output stream                                           *)
(*   st.rtl    whether this build evaluates function arguments right to    *)
(*             left (their order is unspecified in C++)                    *)
(*   st.traps  whether an int division the language leaves undefined    *)
(*             (by zero, INT_MIN / -1) traps on this build or yields a    *)
(*             number                                                     *)
(*   st.log    the record of the execution: one entry for every node       *)
(*             entered, method called, value thrown by Return, MethodBody  *)
(*             left, exception thrown and crash                            *)
(* and gives [sig, val, clo, st]: sig is "value" when the call returned    *)
(* val, "return" when an ObjectHolder val was thrown (Return), "fault"     *)
(* when a std::runtime_error was thrown, and "crash" when the process      *)
(* died (a null pointer was dereferenced, an int was divided by zero).     *)
(* d is the number of method bodies the call is nested in.  The numbers    *)
(* the programs of the model compute stay far inside the range of int.     *)
(* The outcome r of a call is named by The({... r ... : r \in {call}}).    *)
(***************************************************************************)
Log(st, e, t, d, val) ==
    [st EXCEPT !.log = Append(@, [e |-> e, t |-> t, d |-> d, val |-> val])]

Out(st, s) == [st EXCEPT !.out = @ \o s]

Res(sig, val, clo, st) == [sig |-> sig, val |-> val, clo |-> clo, st |-> st]

Value(val, clo, st) == Res("value", val, clo, st)

\* throw std::runtime_error(...)
ThrowRuntimeError(t, clo, st, d) ==
    Res("fault", None, clo, Log(st, "fault", t, d, None))

\* undefined behaviour that ends the process: a member access through a
\* null pointer, an integer division that traps.
Crash(t, clo, st, d) ==
    Res("crash", None, clo, Log(st, "crash", t, d, None))

\* The element of a set of one element.
The(S) == CHOOSE x \in S : TRUE

\* Executable::Execute: the virtual call, recorded in the log; ExecuteNode
\* is the Execute of the node's class.
RECURSIVE ExecuteNode(_, _, _, _)
Execute(node, clo, st, d) ==
    ExecuteNode(node, clo, Log(st, "exec", node.t, d, None), d)

\* for (const auto& arg : args_) args.push_back(arg->Execute(closure, context));
RECURSIVE ExecuteArgs(_, _, _, _, _, _)
ExecuteArgs(args_, i, actual_args, clo, st, d) ==
    IF i > Len(args_) THEN Value(actual_args, clo, st)
    ELSE The({IF r.sig # "value" THEN r
              ELSE ExecuteArgs(args_, i + 1, Append(actual_args, r.val),
                               r.clo, r.st, d) :
                 r \in {Execute(args_[i], clo, st, d)}})

\* ClassInstance::Call: the closure `args` the body runs in: self, then
\* args[method_ptr->formal_params[i]] = actual_args[i] for every actual
\* argument.
CallClosure(self, formal_params, actual_args) ==
    [n \in {"self"} \cup {formal_params[i] : i \in 1 .. Len(actual_args)} |->
        LET at == {i \in 1 .. Len(actual_args) : formal_params[i] = n}
        IN  IF at = {} THEN self ELSE actual_args[Max(at)]]

\* ClassInstance::Call running the body in the caller's closure, extended
\* with self and the arguments.
CallInCallerClosure(id, method, actual_args, clo, st, d) ==
    IF HasMethod(st.inst[id].cls_, method, Len(actual_args))
    THEN LET method_ptr == GetMethod(st.inst[id].cls_, method)
             args == CallClosure(Instance(id), Deref(method_ptr).formal_params,
                                 actual_args) @@ clo
         IN  The({Res(r.sig, r.val, r.clo, r.st) :
                    r \in {Execute(Deref(method_ptr).body, args,
                                   Log(st, "call", method, d + 1, args), d + 1)}})
    ELSE ThrowRuntimeError("Call", clo, st, d)

\* ClassInstance::Call
Call(id, method, actual_args, clo, st, d) ==
    IF HasMethod(st.inst[id].cls_, method, Len(actual_args))
    THEN LET method_ptr == GetMethod(st.inst[id].cls_, method)
             args == CallClosure(Instance(id), Deref(method_ptr).formal_params,
                                 actual_args)
         IN  The({Res(r.sig, r.val, clo, r.st) :
                    r \in {Execute(Deref(method_ptr).body, args,
                                   Log(st, "call", method, d + 1, args), d + 1)}})
    ELSE ThrowRuntimeError("Call", clo, st, d)

\* Class::GetName (runtime.cpp)
GetName(cls) == classes[cls].name_

\* Object::Print(os, context) for the object a non-empty holder refers to.
\* text is what was written to os (before the exception, if one is thrown).
Printed(sig, val, written, clo, st) ==
    [sig |-> sig, val |-> val, text |-> written, clo |-> clo, st |-> st]

RECURSIVE PrintObject(_, _, _, _)
PrintObject(object, clo, st, d) ==
    CASE TryAs(object, "Number") ->
            Printed("value", None, ToString(object.v), clo, st)
      [] TryAs(object, "String") ->
            Printed("value", None, object.v, clo, st)
      [] TryAs(object, "Bool") ->
            Printed("value", None, IF object.v THEN "True" ELSE "False", clo, st)
      [] TryAs(object, "Class") ->
            \* os << "Class " << GetName(), and GetName throws on an empty name
            IF GetName(object.v) = ""
            THEN Printed("fault", None, "Class ", clo,
                         Log(st, "fault", "GetName", d, None))
            ELSE Printed("value", None, "Class " \o GetName(object.v), clo, st)
      [] TryAs(object, "Instance") ->
            IF HasMethod(st.inst[object.v].cls_, "__str__", 0)
            THEN The({IF r.sig # "value"
                      THEN Printed(r.sig, r.val, "", clo, r.st)
                      ELSE IF r.val.k = "None"
                      THEN Printed("crash", None, "", clo,
                                   Log(r.st, "crash", "Print", d, None))
                      ELSE PrintObject(r.val, clo, r.st, d) :
                         r \in {Call(object.v, "__str__", <<>>, clo, st, d)}})
            \* os << this: the address of the object
            ELSE Printed("value", None, "<" \o ToString(object.v) \o ">", clo, st)

\* ValueStatement<T>::Execute (NumericConst, StringConst, BoolConst)
ExecuteValueStatement(node, clo, st, d) == Value(node.value_, clo, st)

\* None::Execute
ExecuteNone(node, clo, st, d) == Value(None, clo, st)

\* VariableValue::Execute, the loop over dotted_ids_ (never empty): the name
\* is looked up in *local_closer, which is the closure (0) or the Fields()
\* of the instance `local_closer` and moves on only when the value found is
\* a ClassInstance.
RECURSIVE VariableValueLoop(_, _, _, _, _, _, _)
VariableValueLoop(dotted_ids_, i, local_closer, found, clo, st, d) ==
    IF i > Len(dotted_ids_) THEN Value(found, clo, st)
    ELSE LET table == IF local_closer = 0 THEN clo
                      ELSE st.inst[local_closer].fields_
         IN  IF dotted_ids_[i] \notin DOMAIN table
             THEN ThrowRuntimeError("VariableValue", clo, st, d)
             ELSE VariableValueLoop(dotted_ids_, i + 1,
                      IF TryAs(table[dotted_ids_[i]], "Instance")
                      THEN table[dotted_ids_[i]].v ELSE local_closer,
                      table[dotted_ids_[i]], clo, st, d)

ExecuteVariableValue(node, clo, st, d) ==
    VariableValueLoop(node.dotted_ids_, 1, 0, None, clo, st, d)

\* Assignment::Execute with closure[var_] evaluated before the right-hand
\* side: operator[] has made the entry when the right-hand side runs.
ExecuteAssignmentEntryFirst(node, clo, st, d) ==
    The({IF r.sig # "value" THEN r
         ELSE Value(r.val, (node.var_ :> r.val) @@ r.clo, r.st) :
            r \in {Execute(node.rv_,
                           IF node.var_ \in DOMAIN clo THEN clo
                           ELSE (node.var_ :> None) @@ clo, st, d)}})

\* Assignment::Execute: the right-hand side, then the store.
ExecuteAssignment(node, clo, st, d) ==
    The({IF r.sig # "value" THEN r
         ELSE Value(r.val, (node.var_ :> r.val) @@ r.clo, r.st) :
            r \in {Execute(node.rv_, clo, st, d)}})

\* FieldAssignment::Execute: the store into Fields() of the object, once the
\* right-hand side r has been evaluated.
FieldAssignmentStore(node, r, d) ==
    The({IF o.sig # "value" THEN o
         ELSE IF ~TryAs(o.val, "Instance")
         THEN Crash("FieldAssignment", o.clo, o.st, d)
         ELSE Value(r.val, o.clo,
                    [o.st EXCEPT !.inst[o.val.v].fields_ =
                                    (node.field_name_ :> r.val) @@ @]) :
            o \in {Execute(node.object_, r.clo, r.st, d)}})

\* FieldAssignment::Execute: the right-hand side, then the object, then the
\* store.
ExecuteFieldAssignment(node, clo, st, d) ==
    The({IF r.sig # "value" THEN r ELSE FieldAssignmentStore(node, r, d) :
            r \in {Execute(node.rv_, clo, st, d)}})

\* Print::Execute, one argument evaluated to r: None or the object's Print.
PrintArgument(r, d) ==
    IF r.val.k = "None"
    THEN Printed("value", None, "None", r.clo, r.st)
    ELSE PrintObject(r.val, r.clo, r.st, d)

\* Print::Execute, the loop over args_.
RECURSIVE PrintLoop(_, _, _, _, _, _)

\* The loop of Print::Execute writing the space after evaluating the
\* argument.
PrintLoopEvaluatingFirst(args_, i, object_holder, clo, st, d) ==
    IF i > Len(args_) THEN Value(object_holder, clo, Out(st, "\n"))
    ELSE The({IF r.sig # "value" THEN r
              ELSE The({IF p.sig # "value"
                        THEN Res(p.sig, p.val, p.clo, Out(p.st, p.text))
                        ELSE PrintLoop(args_, i + 1, r.val, p.clo,
                                       Out(p.st, p.text), d) :
                           p \in {PrintArgument(
                                     [r EXCEPT !.st = IF i > 1 THEN Out(@, " ")
                                                      ELSE @], d)}}) :
                 r \in {Execute(args_[i], clo, st, d)}})

PrintLoop(args_, i, object_holder, clo, st, d) ==
    IF i > Len(args_) THEN Value(object_holder, clo, Out(st, "\n"))
    ELSE The({IF r.sig # "value" THEN r
              ELSE The({IF p.sig # "value"
                        THEN Res(p.sig, p.val, p.clo, Out(p.st, p.text))
                        ELSE PrintLoop(args_, i + 1, r.val, p.clo,
                                       Out(p.st, p.text), d) :
                           p \in {PrintArgument(r, d)}}) :
                 r \in {Execute(args_[i], clo,
                                IF i > 1 THEN Out(st, " ") ELSE st, d)}})

ExecutePrint(node, clo, st, d) == PrintLoop(node.args_, 1, None, clo, st, d)

\* MethodCall::Execute: the call on the object, once the arguments a have
\* been evaluated.
MethodCallOnObject(node, a, d) ==
    The({IF o.sig # "value" THEN o
         ELSE IF ~TryAs(o.val, "Instance")
         THEN Crash("MethodCall", o.clo, o.st, d)
         ELSE Call(o.val.v, node.method_, a.val, o.clo, o.st, d) :
            o \in {Execute(node.object_, a.clo, a.st, d)}})

\* MethodCall::Execute: the arguments, then the object, then the call.
ExecuteMethodCall(node, clo, st, d) ==
    The({IF a.sig # "value" THEN a ELSE MethodCallOnObject(node, a, d) :
            a \in {ExecuteArgs(node.args_, 1, <<>>, clo, st, d)}})

\* Stringify::Execute
ExecuteStringify(node, clo, st, d) ==
    The({IF arg.sig # "value" THEN arg
         ELSE IF arg.val.k = "None"
         THEN Value(String("None"), arg.clo, arg.st)
         ELSE The({IF p.sig # "value" THEN Res(p.sig, p.val, p.clo, p.st)
                   ELSE Value(String(p.text), p.clo, p.st) :
                      p \in {PrintObject(arg.val, arg.clo, arg.st, d)}}) :
            arg \in {Execute(node.argument_, clo, st, d)}})

\* auto obj_lhs = lhs_->Execute(closure, context);
\* auto obj_rhs = rhs_->Execute(closure, context);
\* val is the pair <<obj_lhs, obj_rhs>>.
ExecuteOperands(node, clo, st, d) ==
    The({IF l.sig # "value" THEN l
         ELSE The({IF r.sig # "value" THEN r
                   ELSE Value(<<l.val, r.val>>, r.clo, r.st) :
                      r \in {Execute(node.rhs_, l.clo, l.st, d)}}) :
            l \in {Execute(node.lhs_, clo, st, d)}})

\* Add::Execute, the return statement of the ClassInstance branch: lhs_ and
\* rhs_ are executed once more for the call of __add__.
AddCall(node, clo, st, d) ==
    The({IF o.sig # "value" THEN o
         ELSE IF ~TryAs(o.val[1], "Instance") THEN Crash("Add", o.clo, o.st, d)
         ELSE Call(o.val[1].v, ADD_METHOD, <<o.val[2]>>, o.clo, o.st, d) :
            o \in {ExecuteOperands(node, clo, st, d)}})

\* Add::Execute, the inner test: lhs_ is executed again for HasMethod.
AddHasMethod(node, clo, st, d) ==
    The({IF l.sig # "value" THEN l
         ELSE IF ~TryAs(l.val, "Instance") THEN Crash("Add", l.clo, l.st, d)
         ELSE IF ~HasMethod(l.st.inst[l.val.v].cls_, ADD_METHOD, 1)
         THEN ThrowRuntimeError("Add", l.clo, l.st, d)
         ELSE AddCall(node, l.clo, l.st, d) :
            l \in {Execute(node.lhs_, clo, st, d)}})

\* Add::Execute, the outer test: lhs_ is executed again for TryAs.
AddClassInstance(node, clo, st, d) ==
    The({IF l.sig # "value" THEN l
         ELSE IF ~TryAs(l.val, "Instance")
         THEN ThrowRuntimeError("Add", l.clo, l.st, d)
         ELSE AddHasMethod(node, l.clo, l.st, d) :
            l \in {Execute(node.lhs_, clo, st, d)}})

\* Add::Execute: both operands, then for operands that are not two Numbers
\* or two Strings the left operand again for each test and once more, with
\* the right operand, for the call of __add__.
ExecuteAdd(node, clo, st, d) ==
    The({IF o.sig # "value" THEN o
         ELSE IF TryAs(o.val[1], "Number") /\ TryAs(o.val[2], "Number")
         THEN Value(Number(o.val[1].v + o.val[2].v), o.clo, o.st)
         ELSE IF TryAs(o.val[1], "String") /\ TryAs(o.val[2], "String")
         THEN Value(String(o.val[1].v \o o.val[2].v), o.clo, o.st)
         ELSE AddClassInstance(node, o.clo, o.st, d) :
            o \in {ExecuteOperands(node, clo, st, d)}})

\* Sub::Execute
ExecuteSub(node, clo, st, d) ==
    The({IF o.sig # "value" THEN o
         ELSE IF TryAs(o.val[1], "Number") /\ TryAs(o.val[2], "Number")
         THEN Value(Number(o.val[1].v - o.val[2].v), o.clo, o.st)
         ELSE ThrowRuntimeError("Sub", o.clo, o.st, d) :
            o \in {ExecuteOperands(node, clo, st, d)}})

\* Mult::Execute
ExecuteMult(node, clo, st, d) ==
    The({IF o.sig # "value" THEN o
         ELSE IF TryAs(o.val[1], "Number") /\ TryAs(o.val[2], "Number")
         THEN Value(Number(o.val[1].v * o.val[2].v), o.clo, o.st)
         ELSE ThrowRuntimeError("Mult", o.clo, o.st, d) :
            o \in {ExecuteOperands(node, clo, st, d)}})

\* Div::Execute: the inner test repeats the outer one, so the divisor is
\* never compared with zero; int division by zero (and INT_MIN / -1) is
\* undefined: it traps, or it yields 0 (and INT_MIN), as the build has it.
ExecuteDiv(node, clo, st, d) ==
    The({IF o.sig # "value" THEN o
         ELSE IF TryAs(o.val[1], "Number") /\ TryAs(o.val[2], "Number")
         THEN IF o.val[2].v = 0
                 \/ (o.val[1].v = -IntMax - 1 /\ o.val[2].v = -1)
              THEN IF o.st.traps THEN Crash("Div", o.clo, o.st, d)
                   ELSE Value(Number(IF o.val[2].v = 0 THEN 0
                                     ELSE o.val[1].v), o.clo, o.st)
              ELSE Value(Number(TruncDiv(o.val[1].v, o.val[2].v)), o.clo, o.st)
         ELSE ThrowRuntimeError("Div", o.clo, o.st, d) :
            o \in {ExecuteOperands(node, clo, st, d)}})

\* Compound::Execute
RECURSIVE CompoundLoop(_, _, _, _, _)
CompoundLoop(args_, i, clo, st, d) ==
    IF i > Len(args_) THEN Value(None, clo, st)
    ELSE The({IF r.sig # "value" THEN r
              ELSE CompoundLoop(args_, i + 1, r.clo, r.st, d) :
                 r \in {Execute(args_[i], clo, st, d)}})

ExecuteCompound(node, clo, st, d) == CompoundLoop(node.args_, 1, clo, st, d)

\* Return::Execute: throw statement_->Execute(closure, context);
ExecuteReturn(node, clo, st, d) ==
    The({IF r.sig # "value" THEN r
         ELSE Res("return", r.val, r.clo,
                  Log(r.st, "return", "Return", d, r.val)) :
            r \in {Execute(node.statement_, clo, st, d)}})

\* ClassDefinition::Execute: the first statement stores the holder under the
\* class name and moves cls_ away; the second one calls GetName through the
\* null pointer that TryAs gives for the emptied cls_.
ExecuteClassDefinition(node, clo, st, d) ==
    IF node.id \in st.moved THEN Crash("ClassDefinition", clo, st, d)
    ELSE IF GetName(node.cls_) = ""
    THEN ThrowRuntimeError("GetName", clo, st, d)
    ELSE Crash("ClassDefinition",
               (GetName(node.cls_) :> ClassObject(node.cls_)) @@ clo,
               [st EXCEPT !.moved = @ \cup {node.id}], d)

\* IfElse::Execute
ExecuteIfElse(node, clo, st, d) ==
    The({IF c.sig # "value" THEN c
         ELSE IF IsTrue(c.val) THEN Execute(node.if_body_, c.clo, c.st, d)
         ELSE IF node.else_body_ # NullStatement
         THEN Execute(node.else_body_, c.clo, c.st, d)
         ELSE Value(None, c.clo, c.st) :
            c \in {Execute(node.condition_, clo, st, d)}})

\* IsTrue(rhs_->Execute(closure, context)), the second operand of || and &&.
IsTrueRhs(node, clo, st, d) ==
    The({IF r.sig # "value" THEN r
         ELSE Value(Bool(IsTrue(r.val)), r.clo, r.st) :
            r \in {Execute(node.rhs_, clo, st, d)}})

\* Or::Execute with | in place of ||: both operands are executed.
ExecuteOrEvaluatingBoth(node, clo, st, d) ==
    The({IF l.sig # "value" THEN l
         ELSE The({IF r.sig # "value" THEN r
                   ELSE Value(Bool(IsTrue(l.val) \/ r.val.v),
                              r.clo, r.st) :
                      r \in {IsTrueRhs(node, l.clo, l.st, d)}}) :
            l \in {Execute(node.lhs_, clo, st, d)}})

\* Or::Execute: IsTrue(lhs) || IsTrue(rhs)
ExecuteOr(node, clo, st, d) ==
    The({IF l.sig # "value" THEN l
         ELSE IF IsTrue(l.val) THEN Value(Bool(TRUE), l.clo, l.st)
         ELSE IsTrueRhs(node, l.clo, l.st, d) :
            l \in {Execute(node.lhs_, clo, st, d)}})

\* And::Execute: IsTrue(lhs) && IsTrue(rhs)
ExecuteAnd(node, clo, st, d) ==
    The({IF l.sig # "value" THEN l
         ELSE IF ~IsTrue(l.val) THEN Value(Bool(FALSE), l.clo, l.st)
         ELSE IsTrueRhs(node, l.clo, l.st, d) :
            l \in {Execute(node.lhs_, clo, st, d)}})

\* Not::Execute
ExecuteNot(node, clo, st, d) ==
    The({IF a.sig # "value" THEN a
         ELSE Value(Bool(~IsTrue(a.val)), a.clo, a.st) :
            a \in {Execute(node.argument_, clo, st, d)}})

\* std::string operator<, on the strings the programs of the model compare.
StringsInOrder == <<"", "a", "b">>

StringLess(a, b) ==
    LET Pos(s) == CHOOSE i \in 1 .. Len(StringsInOrder) : StringsInOrder[i] = s
    IN  Pos(a) < Pos(b)

\* lhs.TryAs<ClassInstance>()->Call(method, {rhs}, context).TryAs<Bool>()->GetValue()
CallForBool(lhs, method, rhs, clo, st, d) ==
    The({IF r.sig # "value" THEN r
         ELSE IF ~TryAs(r.val, "Bool") THEN Crash("TryAs<Bool>", r.clo, r.st, d)
         ELSE Value(r.val.v, r.clo, r.st) :
            r \in {Call(lhs.v, method, <<rhs>>, clo, st, d)}})

\* runtime::Equal; val is the bool returned.
Equal(lhs, rhs, clo, st, d) ==
    IF TryAs(lhs, "Number") /\ TryAs(rhs, "Number")
    THEN Value(lhs.v = rhs.v, clo, st)
    ELSE IF TryAs(lhs, "String") /\ TryAs(rhs, "String")
    THEN Value(lhs.v = rhs.v, clo, st)
    ELSE IF TryAs(lhs, "Bool") /\ TryAs(rhs, "Bool")
    THEN Value(lhs.v = rhs.v, clo, st)
    ELSE IF lhs.k = "None" /\ rhs.k = "None" THEN Value(TRUE, clo, st)
    ELSE IF TryAs(lhs, "Instance")
            /\ HasMethod(st.inst[lhs.v].cls_, "__eq__", 1)
    THEN CallForBool(lhs, "__eq__", rhs, clo, st, d)
    ELSE ThrowRuntimeError("Equal", clo, st, d)

\* runtime::Less
Less(lhs, rhs, clo, st, d) ==
    IF TryAs(lhs, "Number") /\ TryAs(rhs, "Number")
    THEN Value(lhs.v < rhs.v, clo, st)
    ELSE IF TryAs(lhs, "String") /\ TryAs(rhs, "String")
    THEN Value(StringLess(lhs.v, rhs.v), clo, st)
    ELSE IF TryAs(lhs, "Bool") /\ TryAs(rhs, "Bool")
    THEN Value(~lhs.v /\ rhs.v, clo, st)
    ELSE IF TryAs(lhs, "Instance")
            /\ HasMethod(st.inst[lhs.v].cls_, "__lt__", 1)
    THEN CallForBool(lhs, "__lt__", rhs, clo, st, d)
    ELSE ThrowRuntimeError("Less", clo, st, d)

\* the bool of a comparison negated
Negated(compared) ==
    The({IF r.sig # "value" THEN r ELSE Value(~r.val, r.clo, r.st) :
            r \in {compared}})

\* runtime::NotEqual
NotEqual(lhs, rhs, clo, st, d) == Negated(Equal(lhs, rhs, clo, st, d))

\* runtime::Greater: !Less(...) && !Equal(...)
Greater(lhs, rhs, clo, st, d) ==
    The({IF l.sig # "value" THEN l
         ELSE IF l.val THEN Value(FALSE, l.clo, l.st)
         ELSE Negated(Equal(lhs, rhs, l.clo, l.st, d)) :
            l \in {Less(lhs, rhs, clo, st, d)}})

\* runtime::LessOrEqual
LessOrEqual(lhs, rhs, clo, st, d) == Negated(Greater(lhs, rhs, clo, st, d))

\* runtime::GreaterOrEqual
GreaterOrEqual(lhs, rhs, clo, st, d) == Negated(Less(lhs, rhs, clo, st, d))

\* cmp_(lhs, rhs, context) for the comparators of runtime.h, and the Bool
\* made of the result.
Compare(cmp_, lhs, rhs, clo, st, d) ==
    The({IF c.sig # "value" THEN c ELSE Value(Bool(c.val), c.clo, c.st) :
            c \in {CASE cmp_ = "Equal" -> Equal(lhs, rhs, clo, st, d)
                     [] cmp_ = "NotEqual" -> NotEqual(lhs, rhs, clo, st, d)
                     [] cmp_ = "Less" -> Less(lhs, rhs, clo, st, d)
                     [] cmp_ = "Greater" -> Greater(lhs, rhs, clo, st, d)
                     [] cmp_ = "LessOrEqual" ->
                             LessOrEqual(lhs, rhs, clo, st, d)
                     [] cmp_ = "GreaterOrEqual" ->
                             GreaterOrEqual(lhs, rhs, clo, st, d)}})

\* Comparison::Execute, the operand evaluated second (b) after the first (a).
ComparisonSecond(node, a, d) ==
    The({IF b.sig # "value" THEN b
         ELSE Compare(node.cmp_, IF a.st.rtl THEN b.val ELSE a.val,
                      IF a.st.rtl THEN a.val ELSE b.val, b.clo, b.st, d) :
            b \in {Execute(IF a.st.rtl THEN node.lhs_ ELSE node.rhs_,
                           a.clo, a.st, d)}})

\* Comparison::Execute: cmp_(lhs_->Execute(...), rhs_->Execute(...), context);
\* the two operands are evaluated in the order of the build.
ExecuteComparison(node, clo, st, d) ==
    The({IF a.sig # "value" THEN a ELSE ComparisonSecond(node, a, d) :
            a \in {Execute(IF st.rtl THEN node.rhs_ ELSE node.lhs_,
                           clo, st, d)}})

\* NewInstance::Execute, class_instance_.Call(INIT_METHOD, args, context) and
\* the return of a holder sharing class_instance_.
NewInstanceInit(node, a, d) ==
    The({IF c.sig # "value" THEN c
         ELSE Value(Instance(node.id), c.clo,
                    Log(c.st, "yield", "NewInstance", d, Instance(node.id))) :
            c \in {Call(node.id, INIT_METHOD, a.val, a.clo, a.st, d)}})

\* NewInstance::Execute: __init__ is called on the member class_instance_
\* when the class has it with this many parameters, and a holder sharing
\* class_instance_ is returned.  The log records the Fields() of
\* class_instance_ on entry and the object the returned holder refers to.
ExecuteNewInstance(node, clo, st, d) ==
    IF HasMethod(st.inst[node.id].cls_, INIT_METHOD, Len(node.args_))
    THEN The({IF a.sig # "value" THEN a ELSE NewInstanceInit(node, a, d) :
                a \in {ExecuteArgs(node.args_, 1, <<>>, clo,
                           Log(st, "new", "NewInstance", d,
                               st.inst[node.id].fields_), d)}})
    ELSE Value(Instance(node.id), clo,
               Log(Log(st, "new", "NewInstance", d, st.inst[node.id].fields_),
                   "yield", "NewInstance", d, Instance(node.id)))

\* MethodBody::Execute whose handler returns an empty holder.
ExecuteMethodBodyDroppingValue(node, clo, st, d) ==
    The({IF r.sig = "return"
         THEN Value(None, r.clo, Log(r.st, "body_exit", "return", d, None))
         ELSE IF r.sig = "value"
         THEN Value(None, r.clo, Log(r.st, "body_exit", "end", d, None))
         ELSE r :
            r \in {Execute(node.body_, clo, st, d)}})

\* MethodBody::Execute whose handler is catch (...).
ExecuteMethodBodyCatchingAll(node, clo, st, d) ==
    The({IF r.sig = "return"
         THEN Value(r.val, r.clo, Log(r.st, "body_exit", "return", d, r.val))
         ELSE IF r.sig = "fault"
         THEN Value(None, r.clo, Log(r.st, "body_exit", "caught", d, None))
         ELSE IF r.sig = "value"
         THEN Value(None, r.clo, Log(r.st, "body_exit", "end", d, None))
         ELSE r :
            r \in {Execute(node.body_, clo, st, d)}})

\* MethodBody::Execute: an ObjectHolder thrown out of the body is caught and
\* returned; anything else thrown passes; a body that ends gives {}.
ExecuteMethodBody(node, clo, st, d) ==
    The({IF r.sig = "return"
         THEN Value(r.val, r.clo, Log(r.st, "body_exit", "return", d, r.val))
         ELSE IF r.sig = "value"
         THEN Value(None, r.clo, Log(r.st, "body_exit", "end", d, None))
         ELSE r :
            r \in {Execute(node.body_, clo, st, d)}})

\* The overrides of Executable::Execute.
ExecuteNode(node, clo, st, d) ==
    CASE node.t \in {"NumericConst", "StringConst", "BoolConst"} ->
            ExecuteValueStatement(node, clo, st, d)
      [] node.t = "None" -> ExecuteNone(node, clo, st, d)
      [] node.t = "VariableValue" -> ExecuteVariableValue(node, clo, st, d)
      [] node.t = "Assignment" -> ExecuteAssignment(node, clo, st, d)
      [] node.t = "FieldAssignment" -> ExecuteFieldAssignment(node, clo, st, d)
      [] node.t = "Print" -> ExecutePrint(node, clo, st, d)
      [] node.t = "MethodCall" -> ExecuteMethodCall(node, clo, st, d)
      [] node.t = "Stringify" -> ExecuteStringify(node, clo, st, d)
      [] node.t = "Add" -> ExecuteAdd(node, clo, st, d)
      [] node.t = "Sub" -> ExecuteSub(node, clo, st, d)
      [] node.t = "Mult" -> ExecuteMult(node, clo, st, d)
      [] node.t = "Div" -> ExecuteDiv(node, clo, st, d)
      [] node.t = "Compound" -> ExecuteCompound(node, clo, st, d)
      [] node.t = "Return" -> ExecuteReturn(node, clo, st, d)
      [] node.t = "ClassDefinition" -> ExecuteClassDefinition(node, clo, st, d)
      [] node.t = "IfElse" -> ExecuteIfElse(node, clo, st, d)
      [] node.t = "Or" -> ExecuteOr(node, clo, st, d)
      [] node.t = "And" -> ExecuteAnd(node, clo, st, d)
      [] node.t = "Not" -> ExecuteNot(node, clo, st, d)
      [] node.t = "Comparison" -> ExecuteComparison(node, clo, st, d)
      [] node.t = "NewInstance" -> ExecuteNewInstance(node, clo, st, d)
      [] node.t = "MethodBody" -> ExecuteMethodBody(node, clo, st, d)

(***************************************************************************)
(* The evaluator as a state machine.  The parser's product is a set of     *)
(* classes and the statements of the program; a run executes statements    *)
(* of the pool below, each at most once, in any order:                     *)
(*                                                                         *)
(*   class Box:                      class Maker:                          *)
(*     def __init__(v):                def make():    return Box()         *)
(*       self.v = v                    def build(v):  return Box(v)        *)
(*                                     def m():                            *)
(*   f = Maker()                         print "a"; return 7; print "b"    *)
(*   x = f.make()                      def outer():                        *)
(*   y = f.make()                        print "o"                         *)
(*   x.v = 1                             t = self.m()                      *)
(*   print y.v                           if t:                             *)
(*   print f.m()                           print t                         *)
(*   print f.outer()                       return "r"                      *)
(*   f.bad()                             print "z"                         *)
(*   print f.wrap()                    def bad():                          *)
(*   p = f.build(5)                      print "x"; print missing;         *)
(*   q = f.build(6)                      print "y"                         *)
(*   print f.noret()                   def wrap():                         *)
(*                                       r = self.bad(); return 1          *)
(*                                     def noret():   print "n"            *)
(***************************************************************************)
Var(name) == VariableValue(<<name>>)

BoxMethods ==
    <<Method(INIT_METHOD, <<"v">>, MethodBody(Compound(<<
          FieldAssignment(Var("self"), "v", Var("v"))>>)))>>

MakerMethods ==
    <<Method("make", <<>>, MethodBody(Compound(<<
          Return(NewInstance(2, <<>>))>>))),
      Method("build", <<"v">>, MethodBody(Compound(<<
          Return(NewInstance(3, <<Var("v")>>))>>))),
      Method("m", <<>>, MethodBody(Compound(<<
          PrintStatement(<<StringConst("a")>>),
          Return(NumericConst(7)),
          PrintStatement(<<StringConst("b")>>)>>))),
      Method("outer", <<>>, MethodBody(Compound(<<
          PrintStatement(<<StringConst("o")>>),
          Assignment("t", MethodCall(Var("self"), "m", <<>>)),
          IfElse(Var("t"),
                 Compound(<<PrintStatement(<<Var("t")>>),
                            Return(StringConst("r"))>>),
                 NullStatement),
          PrintStatement(<<StringConst("z")>>)>>))),
      Method("bad", <<>>, MethodBody(Compound(<<
          PrintStatement(<<StringConst("x")>>),
          PrintStatement(<<Var("missing")>>),
          PrintStatement(<<StringConst("y")>>)>>))),
      Method("wrap", <<>>, MethodBody(Compound(<<
          Assignment("r", MethodCall(Var("self"), "bad", <<>>)),
          Return(NumericConst(1))>>))),
      Method("noret", <<>>, MethodBody(Compound(<<
          PrintStatement(<<StringConst("n")>>)>>)))>>

ProgramClasses ==
    [c \in {"Box", "Maker"} |->
        IF c = "Box" THEN Class("Box", BoxMethods, NoClass)
        ELSE Class("Maker", MakerMethods, NoClass)]

\* The ClassInstance members of the NewInstance nodes, as constructed.
ProgramInstances ==
    [id \in 1 .. 3 |->
        [cls_ |-> IF id = 1 THEN "Maker" ELSE "Box", fields_ |-> <<>>]]

Program ==
    <<Assignment("f", NewInstance(1, <<>>)),
      Assignment("x", MethodCall(Var("f"), "make", <<>>)),
      Assignment("y", MethodCall(Var("f"), "make", <<>>)),
      FieldAssignment(Var("x"), "v", NumericConst(1)),
      PrintStatement(<<VariableValue(<<"y", "v">>)>>),
      PrintStatement(<<MethodCall(Var("f"), "m", <<>>)>>),
      PrintStatement(<<MethodCall(Var("f"), "outer", <<>>)>>),
      MethodCall(Var("f"), "bad", <<>>),
      PrintStatement(<<MethodCall(Var("f"), "wrap", <<>>)>>),
      Assignment("p", MethodCall(Var("f"), "build", <<NumericConst(5)>>)),
      Assignment("q", MethodCall(Var("f"), "build", <<NumericConst(6)>>)),
      PrintStatement(<<MethodCall(Var("f"), "noret", <<>>)>>)>>

MaxSteps == 4

EvalInit ==
    /\ closure = <<>>
    /\ instances = ProgramInstances
    /\ moved = {}
    /\ output = ""
    /\ status = "running"
    /\ done = {}
    /\ yielded = <<>>
    /\ executed = NoExecution
    /\ classes = ProgramClasses
    /\ lookup = NoLookup
    /\ LexerIdle

\* The instances the holders returned by NewInstance refer to, from a log.
RECURSIVE Yields(_)
Yields(log) ==
    IF log = <<>> THEN <<>>
    ELSE IF Head(log).e = "yield" THEN <<Head(log).val.v>> \o Yields(Tail(log))
    ELSE Yields(Tail(log))

\* One statement of the program is executed in the program's closure.  An
\* exception or a crash ends the program.
ExecuteStatement ==
    /\ status = "running"
    /\ Cardinality(done) < MaxSteps
    /\ \E s \in (1 .. Len(Program)) \ done, rtl \in BOOLEAN, traps \in BOOLEAN :
          \E r \in {Execute(Program[s], closure,
                           [inst |-> instances, moved |-> moved, out |-> "",
                            rtl |-> rtl, traps |-> traps, log |-> <<>>], 0)} :
              /\ closure' = r.clo
              /\ instances' = r.st.inst
              /\ moved' = r.st.moved
              /\ output' = output \o r.st.out
              /\ status' = IF r.sig = "value" THEN "running" ELSE r.sig
              /\ done' = done \cup {s}
              /\ yielded' = yielded \o Yields(r.st.log)
              /\ executed' = [stmt |-> s, sig |-> r.sig, val |-> r.val,
                              out |-> r.st.out, log |-> r.st.log,
                              before |-> closure]
    /\ UNCHANGED <<lexvars, classvars>>

EvalNext == ExecuteStatement

EvalSpec == EvalInit /\ [][EvalNext]_vars

(***************************************************************************)
(* Method lookup as a state machine: a chain of classes, each the parent   *)
(* of the next, with any of the method lists below; GetMethod is called    *)
(* on any class of the chain with any name, in either variant.             *)
(***************************************************************************)
MaxChain == 3

ChainKeys == <<"A", "B", "C", "D", "E">>

MethodNames == {"f", "g"}

MethodLists ==
    {<<>>, <<"f">>, <<"g">>, <<"f", "g">>, <<"g", "f">>, <<"f", "f">>}

Chain(n, lists) ==
    [c \in {ChainKeys[i] : i \in 1 .. n} |->
        LET i == CHOOSE j \in 1 .. n : ChainKeys[j] = c
        IN  Class(c,
                  [j \in 1 .. Len(lists[i]) |->
                      Method(lists[i][j], <<>>, NullStatement)],
                  IF i = 1 THEN NoClass ELSE ChainKeys[i - 1])]

ClassInit ==
    /\ \E n \in 1 .. MaxChain :
          \E lists \in [1 .. n -> MethodLists] : classes = Chain(n, lists)
    /\ lookup = NoLookup
    /\ LexerIdle
    /\ EvalIdle

\* cls.GetMethod(name) of runtime.cpp
LookupByWalk ==
    /\ \E cls \in DOMAIN classes, name \in MethodNames :
          lookup' = [variant |-> "walk", cls |-> cls, name |-> name,
                     result |-> GetMethod(cls, name)]
    /\ UNCHANGED <<classes, lexvars, evalvars>>

\* cls.GetMethod(name) of the variant with the index methods_parts_
LookupByIndex ==
    /\ \E cls \in DOMAIN classes, name \in MethodNames :
          lookup' = [variant |-> "index", cls |-> cls, name |-> name,
                     result |-> GetMethodByIndex(cls, name)]
    /\ UNCHANGED <<classes, lexvars, evalvars>>

ClassNext == LookupByWalk \/ LookupByIndex

ClassSpec == ClassInit /\ [][ClassNext]_vars

(***************************************************************************)
(* Single statements as a state machine.  The closure of the program       *)
(* holds values of every kind and a run executes statements of the pool    *)
(* Cases in it, each at most once, in any order:                           *)
(*                                                                         *)
(*   class Base:                       class Kid(Base):                    *)
(*     def get():      return 1          def set(a, b):                    *)
(*     def __eq__(o):  return True         x = a; self.v = b; return x     *)
(*   class Odd:                          def noisy():                      *)
(*     def __eq__(o):  return 1            print "n"; return True          *)
(*   class Plain:                                                          *)
(*   class Wide(Kid):                                                      *)
(*     def get(a):     return 2        def me():   print "r"; return self  *)
(*     def __add__(o): return 7        def loud(): print "m"; return 2     *)
(*   a class whose name is the empty string, without methods               *)
(*                                                                         *)
(*   x = 10; v = 3; s = "a"; t = True; n = None                            *)
(*   k = Kid(); e = Plain() with e.v = 4; o = Odd(); c = Kid (the class)   *)
(*   w = Wide(); a = the class with the empty name                         *)
(***************************************************************************)
BaseMethods ==
    <<Method("get", <<>>, MethodBody(Compound(<<
          Return(NumericConst(1))>>))),
      Method("__eq__", <<"o">>, MethodBody(Compound(<<
          Return(BoolConst(TRUE))>>)))>>

KidMethods ==
    <<Method("set", <<"a", "b">>, MethodBody(Compound(<<
          Assignment("x", Var("a")),
          FieldAssignment(Var("self"), "v", Var("b")),
          Return(Var("x"))>>))),
      Method("noisy", <<>>, MethodBody(Compound(<<
          PrintStatement(<<StringConst("n")>>),
          Return(BoolConst(TRUE))>>)))>>

OddMethods ==
    <<Method("__eq__", <<"o">>, MethodBody(Compound(<<
          Return(NumericConst(1))>>)))>>

WideMethods ==
    <<Method("get", <<"a">>, MethodBody(Compound(<<
          Return(NumericConst(2))>>))),
      Method("me", <<>>, MethodBody(Compound(<<
          PrintStatement(<<StringConst("r")>>),
          Return(Var("self"))>>))),
      Method("loud", <<>>, MethodBody(Compound(<<
          PrintStatement(<<StringConst("m")>>),
          Return(NumericConst(2))>>))),
      Method(ADD_METHOD, <<"o">>, MethodBody(Compound(<<
          Return(NumericConst(7))>>)))>>

CaseClasses ==
    [c \in {"Base", "Kid", "Odd", "Plain", "Wide", "Anon"} |->
        CASE c = "Base" -> Class("Base", BaseMethods, NoClass)
          [] c = "Kid" -> Class("Kid", KidMethods, "Base")
          [] c = "Odd" -> Class("Odd", OddMethods, NoClass)
          [] c = "Plain" -> Class("Plain", <<>>, NoClass)
          [] c = "Wide" -> Class("Wide", WideMethods, "Kid")
          [] c = "Anon" -> Class("", <<>>, NoClass)]

\* The instances k (1), e (2), o (3) and w (4).
CaseInstances ==
    [id \in 1 .. 4 |->
        CASE id = 1 -> [cls_ |-> "Kid", fields_ |-> <<>>]
          [] id = 2 -> [cls_ |-> "Plain", fields_ |-> ("v" :> Number(4))]
          [] id = 3 -> [cls_ |-> "Odd", fields_ |-> <<>>]
          [] id = 4 -> [cls_ |-> "Wide", fields_ |-> <<>>]]

CaseClosure ==
    [name \in {"x", "v", "s", "t", "n", "k", "e", "o", "c", "w", "a"} |->
        CASE name = "x" -> Number(10)
          [] name = "v" -> Number(3)
          [] name = "s" -> String("a")
          [] name = "t" -> Bool(TRUE)
          [] name = "n" -> None
          [] name = "k" -> Instance(1)
          [] name = "e" -> Instance(2)
          [] name = "o" -> Instance(3)
          [] name = "c" -> ClassObject("Kid")
          [] name = "w" -> Instance(4)
          [] name = "a" -> ClassObject("Anon")]

\* The operands of the comparisons of the pool.
Operands ==
    <<NumericConst(1), NumericConst(2), StringConst("a"), BoolConst(TRUE),
      NoneConst, Var("k"), Var("e"), Var("o"), Var("c")>>

\* lhs == rhs for every pair of operands.
EqualCases ==
    [i \in 1 .. Len(Operands) * Len(Operands) |->
        Comparison("Equal", Operands[((i - 1) \div Len(Operands)) + 1],
                   Operands[((i - 1) % Len(Operands)) + 1])]

CallCases ==
    <<MethodCall(Var("k"), "set", <<NumericConst(1), NumericConst(2)>>),
      MethodCall(Var("k"), "get", <<>>),
      MethodCall(Var("k"), "nosuch", <<>>),
      MethodCall(Var("k"), "set", <<NumericConst(1)>>),
      MethodCall(Var("k"), "get", <<NumericConst(1)>>),
      MethodCall(Var("e"), "get", <<>>),
      MethodCall(Var("x"), "get", <<>>),
      MethodCall(Var("n"), "get", <<>>),
      MethodCall(Var("s"), "get", <<>>),
      MethodCall(Var("c"), "get", <<>>)>>

DivCases ==
    <<BinaryOperation("Div", NumericConst(7), NumericConst(0)),
      BinaryOperation("Div", NumericConst(7), NumericConst(2)),
      BinaryOperation("Div", NumericConst(-7), NumericConst(2)),
      BinaryOperation("Div", Var("x"), Var("v")),
      BinaryOperation("Div", Var("x"), NumericConst(0))>>

Noisy == MethodCall(Var("k"), "noisy", <<>>)

LogicCases ==
    <<BinaryOperation("Or", BoolConst(TRUE), Noisy),
      BinaryOperation("Or", BoolConst(FALSE), Noisy),
      BinaryOperation("And", BoolConst(TRUE), Noisy),
      BinaryOperation("And", BoolConst(FALSE), Noisy),
      BinaryOperation("Or", Noisy, NumericConst(0)),
      BinaryOperation("And", Noisy, StringConst(""))>>

VariableCases ==
    <<VariableValue(<<"x">>),
      VariableValue(<<"missing">>),
      VariableValue(<<"e", "v">>),
      VariableValue(<<"k", "v">>),
      VariableValue(<<"e", "x">>),
      VariableValue(<<"x", "v">>),
      VariableValue(<<"n", "v">>),
      VariableValue(<<"c", "x">>),
      VariableValue(<<"e", "v", "x">>)>>

ClassDefinitionCases == <<ClassDefinition(1, "Plain")>>

AssignmentCases ==
    <<Assignment("x", NumericConst(5)),
      Assignment("z", StringConst("b")),
      Assignment("x", BinaryOperation("Add", Var("x"), NumericConst(1))),
      Assignment("z", Var("missing")),
      Assignment("x", Var("missing")),
      Assignment("z", MethodCall(Var("k"), "set",
                                 <<NumericConst(1), NumericConst(2)>>)),
      Assignment("z", MethodCall(Var("k"), "nosuch", <<>>))>>

PrintCases ==
    <<PrintStatement(<<>>),
      PrintStatement(<<NumericConst(1)>>),
      PrintStatement(<<NoneConst, BoolConst(FALSE)>>),
      PrintStatement(<<NumericConst(1), Noisy, NoneConst, StringConst("a")>>),
      PrintStatement(<<Noisy, Noisy>>)>>

\* Calls of get on w: Wide declares get(a), its ancestor Base get().
ArityCases ==
    <<MethodCall(Var("w"), "get", <<>>),
      MethodCall(Var("w"), "get", <<NumericConst(5)>>),
      MethodCall(Var("w"), "get", <<NumericConst(5), NumericConst(6)>>)>>

Me == MethodCall(Var("w"), "me", <<>>)
Loud == MethodCall(Var("w"), "loud", <<>>)
WNoisy == MethodCall(Var("w"), "noisy", <<>>)

\* Programs of one statement whose operands write when they are executed.
OrderCases ==
    <<Compound(<<MethodCall(Me, "set", <<WNoisy, Loud>>)>>),
      Compound(<<MethodCall(Me, "get", <<Loud>>)>>),
      Compound(<<MethodCall(Me, "loud", <<>>)>>)>>

AddCases ==
    <<Compound(<<BinaryOperation("Add", Loud, NumericConst(1))>>),
      Compound(<<BinaryOperation("Add", StringConst("a"), StringConst("b"))>>),
      Compound(<<BinaryOperation("Add", Me, Loud)>>),
      Compound(<<BinaryOperation("Add", Loud, StringConst("a"))>>),
      Compound(<<BinaryOperation("Add", NumericConst(1), Loud)>>)>>

ClassPrintCases ==
    <<Compound(<<PrintStatement(<<Var("c")>>)>>),
      Compound(<<PrintStatement(<<Var("a")>>)>>),
      Compound(<<Stringify(Var("a"))>>)>>

Cases ==
    CallCases \o DivCases \o LogicCases \o VariableCases
        \o ClassDefinitionCases \o AssignmentCases \o PrintCases \o EqualCases
        \o ArityCases \o OrderCases \o AddCases \o ClassPrintCases

MaxCases == 2

CaseInit ==
    /\ closure = CaseClosure
    /\ instances = CaseInstances
    /\ moved = {}
    /\ output = ""
    /\ status = "running"
    /\ done = {}
    /\ yielded = <<>>
    /\ executed = NoExecution
    /\ classes = CaseClasses
    /\ lookup = NoLookup
    /\ LexerIdle

\* One statement of the pool is executed in the program's closure.  An
\* exception or a crash ends the program.
ExecuteCase ==
    /\ status = "running"
    /\ Cardinality(done) < MaxCases
    /\ \E s \in (1 .. Len(Cases)) \ done, rtl \in BOOLEAN, traps \in BOOLEAN :
          \E r \in {Execute(Cases[s], closure,
                           [inst |-> instances, moved |-> moved, out |-> "",
                            rtl |-> rtl, traps |-> traps, log |-> <<>>], 0)} :
              /\ closure' = r.clo
              /\ instances' = r.st.inst
              /\ moved' = r.st.moved
              /\ output' = output \o r.st.out
              /\ status' = IF r.sig = "value" THEN "running" ELSE r.sig
              /\ done' = done \cup {s}
              /\ yielded' = yielded \o Yields(r.st.log)
              /\ executed' = [stmt |-> s, sig |-> r.sig, val |-> r.val,
                              out |-> r.st.out, log |-> r.st.log,
                              before |-> closure]
    /\ UNCHANGED <<lexvars, classvars>>

CaseSpec == CaseInit /\ [][ExecuteCase]_vars

(***************************************************************************)
(* Properties of the evaluator.                                            *)
(***************************************************************************)
\* The positions of the log of the last execution holding an entry e.
LogAt(e) == {i \in 1 .. Len(executed.log) : executed.log[i].e = e}

\* C7: every execution of a NewInstance node yields a fresh instance: no
\* two executions, of the same node or of different nodes, yield the same
\* object, and the field table of the instance is empty when the execution
\* starts, before __init__ runs.
C7_FreshInstance ==
    /\ \A i, j \in 1 .. Len(yielded) : i # j => yielded[i] # yielded[j]
    /\ \A i \in LogAt("new") : executed.log[i].val = <<>>

\* C8: a value thrown by Return inside a method body is caught next, with
\* nothing executed in between, by the MethodBody of the same nesting
\* depth, which returns that very value; a MethodBody returns a thrown
\* value only on a Return of its own depth, so the body of the caller goes
\* on after the inner call.  The method print "a"; return 7; print "b"
\* called in print f.m() writes a and 7; outer(), which calls m(), prints
\* its result and returns "r", writes o, a, 7 and r.
C8_ReturnLeavesMethodBody ==
    /\ \A i \in LogAt("return") :
          executed.log[i].d >= 1 =>
             /\ i < Len(executed.log)
             /\ executed.log[i + 1].e = "body_exit"
             /\ executed.log[i + 1].t = "return"
             /\ executed.log[i + 1].d = executed.log[i].d
             /\ executed.log[i + 1].val = executed.log[i].val
    /\ \A i \in LogAt("body_exit") :
          executed.log[i].t = "return" =>
             /\ i > 1
             /\ executed.log[i - 1].e = "return"
             /\ executed.log[i - 1].d = executed.log[i].d
    /\ executed.stmt = 6 /\ executed.sig = "value" =>
          executed.out = "a\n7\n"
    /\ executed.stmt = 7 /\ executed.sig = "value" =>
          executed.out = "o\na\n7\nr\n"

\* C8 witness: print f.outer() has run: m() returned 7 from depth 2 and
\* outer() went on and returned "r" from depth 1.
C8_Witness ==
    /\ executed.stmt = 7
    /\ executed.sig = "value"
    /\ \E i, j \in LogAt("return") :
          /\ i < j
          /\ executed.log[i].d = 2 /\ executed.log[i].val = Number(7)
          /\ executed.log[j].d = 1 /\ executed.log[j].val = String("r")

\* C9: a std::runtime_error thrown while a method body executes is the
\* last thing the execution does: no MethodBody returns after it (neither a
\* value nor an empty holder), and the exception leaves the statement.
C9_FaultPassesMethodBody ==
    \A i \in LogAt("fault") :
        executed.log[i].d >= 1 =>
           /\ i = Len(executed.log)
           /\ executed.sig = "fault"
           /\ status = "fault"

\* C9 witness: print f.wrap() has run: bad() threw two method bodies deep,
\* after printing x.
C9_Witness ==
    /\ executed.stmt = 9
    /\ executed.sig = "fault"
    /\ executed.out = "x\n"
    /\ \E i \in LogAt("fault") : executed.log[i].d = 2

(***************************************************************************)
(* Properties of method lookup.                                            *)
(***************************************************************************)
Declares(cls, name) ==
    \E i \in 1 .. Len(classes[cls].methods_) : classes[cls].methods_[i].name = name

\* The nearest class on the path cls, parent, grandparent, ... that
\* declares name; NoClass if none does.
RECURSIVE Nearest(_, _)
Nearest(cls, name) ==
    IF Declares(cls, name) THEN cls
    ELSE IF classes[cls].parent = NoClass THEN NoClass
    ELSE Nearest(classes[cls].parent, name)

\* What the claim requires of a lookup.
NearestFound ==
    IF Nearest(lookup.cls, lookup.name) = NoClass
    THEN lookup.result = NullMethod
    ELSE /\ lookup.result # NullMethod
         /\ lookup.result.cls = Nearest(lookup.cls, lookup.name)
         /\ Deref(lookup.result).name = lookup.name

\* C10: in a chain of any depth GetMethod(name) returns the definition of
\* the nearest class on the path self, parent, grandparent, ... declaring
\* the name, and null exactly when no class on the path declares it; for
\* the GetMethod that walks parent_ and for the one that reads the index.
C10_GetMethodNearest == lookup.variant # "none" => NearestFound

(***************************************************************************)
(* Properties of single statements (CaseSpec).                             *)
(***************************************************************************)
\* The statement executed last.
CaseNode == Cases[executed.stmt]

\* The statement executed last is a node of class t.
Ran(t) == executed.stmt # 0 /\ CaseNode.t = t

\* The value a variable had before the last statement; None if unbound.
Before(name) ==
    IF name \in DOMAIN executed.before THEN executed.before[name] ELSE None

\* The formal parameters of the method `name` that the nearest class on the
\* path cls, parent, ... declaring it gives it.
DeclaredParams(cls, name) ==
    LET ms == classes[Nearest(cls, name)].methods_
    IN  ms[CHOOSE i \in 1 .. Len(ms) : ms[i].name = name].formal_params

\* cls or an ancestor declares `name` with n formal parameters.
Callable(cls, name, n) ==
    /\ Nearest(cls, name) # NoClass
    /\ Len(DeclaredParams(cls, name)) = n

\* The receiver of the method call executed last: the value of its object
\* expression, a variable.
Receiver == Before(CaseNode.object_.dotted_ids_[1])

\* C11: every method body runs in a symbol table that holds exactly self,
\* an instance, and the formal parameters of the method called; in a call
\* statement obj.m(args) self is the receiver and the formals are bound
\* positionally to the arguments; the statement leaves the caller's closure
\* as it was, also when the body assigns to a name the caller has
\* (k.set(1, 2) runs x = a, self.v = b, return x).
C11_CallFreshClosure ==
    executed.stmt # 0 =>
       /\ \A i \in LogAt("call") :
             /\ "self" \in DOMAIN executed.log[i].val
             /\ TryAs(executed.log[i].val["self"], "Instance")
             /\ DOMAIN executed.log[i].val =
                   {"self"} \cup
                   Range(DeclaredParams(
                       instances[executed.log[i].val["self"].v].cls_,
                       executed.log[i].t))
       /\ Ran("MethodCall") =>
             /\ closure = executed.before
             /\ \A i \in LogAt("call") :
                   /\ executed.log[i].val["self"] = Receiver
                   /\ \A j \in 1 .. Len(CaseNode.args_) :
                         executed.log[i].val[
                             DeclaredParams(instances[Receiver.v].cls_,
                                            CaseNode.method_)[j]]
                            = CaseNode.args_[j].value_
       /\ CaseNode = CallCases[1] /\ Receiver = Instance(1) =>
             /\ executed.sig = "value"
             /\ executed.val = Number(1)
             /\ instances[1].fields_["v"] = Number(2)
             /\ LogAt("call") # {}

\* C11 witness: k.set(1, 2) has run while the caller's x was 10: the body
\* assigned 1 to its x and 2 to self.v.
C11_Witness ==
    /\ executed.stmt # 0
    /\ CaseNode = CallCases[1]
    /\ executed.sig = "value"
    /\ Before("x") = Number(10)
    /\ closure["x"] = Number(10)
    /\ instances[1].fields_ = ("v" :> Number(2))

\* C12: a call statement on an instance whose class and ancestors declare
\* no method of the name, or declare it with another number of formal
\* parameters, throws runtime_error, enters no method body, writes nothing
\* and leaves the closure as it was; with the name and the number matching
\* the body is entered.
C12_NoSuchMethodFaults ==
    Ran("MethodCall") /\ TryAs(Receiver, "Instance") =>
       IF Callable(instances[Receiver.v].cls_, CaseNode.method_,
                   Len(CaseNode.args_))
       THEN LogAt("call") # {}
       ELSE /\ executed.sig = "fault"
            /\ status = "fault"
            /\ LogAt("call") = {}
            /\ executed.out = ""
            /\ closure = executed.before

\* C12 witness: k.set(1) has run, set having two formal parameters.
C12_Witness ==
    /\ executed.stmt # 0
    /\ CaseNode = CallCases[4]
    /\ Receiver = Instance(1)
    /\ executed.sig = "fault"

\* The operand of the Div executed last, a constant or a variable.
DivOperand(node) ==
    IF node.t = "VariableValue" THEN Before(node.dotted_ids_[1])
    ELSE node.value_

Abs(n) == IF n < 0 THEN -n ELSE n

\* q is a / b rounded towards zero.
IsQuotient(q, a, b) ==
    /\ Abs(a - q * b) < Abs(b)
    /\ a - q * b = 0 \/ (a - q * b > 0) = (a > 0)

\* C13: Div of two Numbers throws runtime_error when the right one is 0
\* and gives the quotient rounded towards zero otherwise.
C13_DivByZeroFaults ==
    Ran("Div") /\ TryAs(DivOperand(CaseNode.lhs_), "Number")
               /\ TryAs(DivOperand(CaseNode.rhs_), "Number") =>
       IF DivOperand(CaseNode.rhs_).v = 0
       THEN executed.sig = "fault"
       ELSE /\ executed.sig = "value"
            /\ TryAs(executed.val, "Number")
            /\ IsQuotient(executed.val.v, DivOperand(CaseNode.lhs_).v,
                          DivOperand(CaseNode.rhs_).v)

\* is_true of a constant operand, as the claim has it; the call k.noisy()
\* returns True.
OperandTruth(node) ==
    CASE node.t = "NumericConst" -> node.value_.v # 0
      [] node.t = "StringConst" -> node.value_.v # ""
      [] node.t = "BoolConst" -> node.value_.v
      [] OTHER -> TRUE

\* An operand of the And or Or executed last was executed.
OperandExecuted(node) ==
    \E i \in LogAt("exec") :
        executed.log[i].d = 0 /\ executed.log[i].t = node.t

\* C14: And and Or execute both operands whatever the left one gives, so
\* what the call k.noisy() writes is always written, and give the Bool of
\* the and / or of is_true of the two values.
C14_BothOperandsEvaluated ==
    (Ran("And") \/ Ran("Or")) /\ Before("k") = Instance(1) =>
       /\ executed.sig = "value"
       /\ OperandExecuted(CaseNode.lhs_)
       /\ OperandExecuted(CaseNode.rhs_)
       /\ executed.out = "n\n"
       /\ executed.val =
             Bool(IF CaseNode.t = "And"
                  THEN OperandTruth(CaseNode.lhs_) /\ OperandTruth(CaseNode.rhs_)
                  ELSE OperandTruth(CaseNode.lhs_) \/ OperandTruth(CaseNode.rhs_))

\* C14 as amended: Or executes its right operand exactly when is_true of
\* the left value is false, And exactly when it is true, and the result is
\* the Bool of the or / and of is_true of the two values; what k.noisy()
\* writes is written exactly when the call is executed.
C14_ShortCircuit ==
    (Ran("And") \/ Ran("Or")) /\ Before("k") = Instance(1) =>
       /\ executed.sig = "value"
       /\ OperandExecuted(CaseNode.lhs_)
       /\ OperandExecuted(CaseNode.rhs_) <=>
             IF CaseNode.t = "And" THEN OperandTruth(CaseNode.lhs_)
             ELSE ~OperandTruth(CaseNode.lhs_)
       /\ executed.out = IF LogAt("call") # {} THEN "n\n" ELSE ""
       /\ LogAt("call") # {} <=>
             \/ CaseNode.lhs_ = Noisy
             \/ CaseNode.rhs_ = Noisy /\ OperandExecuted(CaseNode.rhs_)
       /\ executed.val =
             Bool(IF CaseNode.t = "And"
                  THEN OperandTruth(CaseNode.lhs_) /\ OperandTruth(CaseNode.rhs_)
                  ELSE OperandTruth(CaseNode.lhs_) \/ OperandTruth(CaseNode.rhs_))

\* C14 witness: True or k.noisy() has run and nothing was written.
C14_Witness ==
    /\ executed.stmt # 0
    /\ CaseNode = LogicCases[1]
    /\ executed.sig = "value"
    /\ executed.val = Bool(TRUE)
    /\ executed.out = ""

\* What the claim gives for the names ids[i], ids[i + 1], ... after the
\* value prev of ids[i - 1]: the first name is looked up in the closure,
\* a later one in the fields of the instance prev, a fault if prev is no
\* instance or the name is absent.
RECURSIVE ChainValue(_, _, _)
ChainValue(ids, i, prev) ==
    IF i > Len(ids) THEN [sig |-> "value", val |-> prev]
    ELSE IF i > 1 /\ ~TryAs(prev, "Instance")
    THEN [sig |-> "fault", val |-> None]
    ELSE IF ids[i] \notin DOMAIN (IF i = 1 THEN executed.before
                                  ELSE instances[prev.v].fields_)
    THEN [sig |-> "fault", val |-> None]
    ELSE ChainValue(ids, i + 1,
                    (IF i = 1 THEN executed.before
                     ELSE instances[prev.v].fields_)[ids[i]])

\* C15: a dotted chain gives the value found by looking the first name up
\* in the closure and each later name in the fields of the instance found
\* before it, and throws runtime_error when the value found before is not
\* an instance or a name is absent from its table.
C15_DottedLookupFaults ==
    Ran("VariableValue") =>
       /\ executed.sig = ChainValue(CaseNode.dotted_ids_, 1, None).sig
       /\ executed.val = ChainValue(CaseNode.dotted_ids_, 1, None).val
       /\ closure = executed.before

\* C16: a call statement whose object is not an instance (None, a Number,
\* a String, a Class) throws runtime_error and enters no method body.
C16_CallOnNonInstanceFaults ==
    Ran("MethodCall") /\ ~TryAs(Receiver, "Instance") =>
       /\ executed.sig = "fault"
       /\ LogAt("call") = {}

\* C17: executing a ClassDefinition binds the name of its class to the
\* class object in the closure, returns that holder, changes no other
\* binding and leaves the node holding its class.
C17_ClassDefinitionBinds ==
    Ran("ClassDefinition") =>
       /\ executed.sig = "value"
       /\ executed.val = ClassObject(CaseNode.cls_)
       /\ closure = (classes[CaseNode.cls_].name_ :> ClassObject(CaseNode.cls_))
                       @@ executed.before
       /\ CaseNode.id \notin moved

\* The value of an operand of the comparison executed last, a constant or
\* a variable.
OperandValue(node) ==
    CASE node.t = "VariableValue" -> Before(node.dotted_ids_[1])
      [] node.t = "None" -> None
      [] OTHER -> node.value_

SameKind(l, r, kind) == TryAs(l, kind) /\ TryAs(r, kind)

\* What the claim requires of Equal(l, r), given the outcome of the
\* comparison.
EqualAsClaimed(l, r) ==
    IF SameKind(l, r, "Number") \/ SameKind(l, r, "String")
          \/ SameKind(l, r, "Bool")
    THEN executed.sig = "value" /\ executed.val = Bool(l.v = r.v)
    ELSE IF l.k = "None" /\ r.k = "None"
    THEN executed.sig = "value" /\ executed.val = Bool(TRUE)
    ELSE IF TryAs(l, "Instance")
            /\ Callable(instances[l.v].cls_, "__eq__", 1)
    THEN /\ executed.sig = "value"
         /\ \E i \in LogAt("call") :
               /\ executed.log[i].t = "__eq__"
               /\ executed.log[i].val["self"] = l
               /\ executed.log[i].val["o"] = r
         /\ \E i \in LogAt("return") :
               executed.log[i].d = 1 /\ executed.val = executed.log[i].val
    ELSE executed.sig = "fault"

\* C18: lhs == rhs is value equality for two Numbers, two Strings or two
\* Bools, true for two None, the result of lhs.__eq__(rhs) for an instance
\* lhs whose class has __eq__ with one parameter, and a runtime_error for
\* every other pair.
C18_EqualTable ==
    Ran("Comparison") =>
       EqualAsClaimed(OperandValue(CaseNode.lhs_), OperandValue(CaseNode.rhs_))

\* C19: an assignment whose right-hand side gives a value leaves the
\* closure it had with exactly the binding of its variable added or
\* overwritten by that value, which is the result; when the right-hand
\* side throws runtime_error the closure is as it was, with no binding made
\* for the variable.  The right-hand side is evaluated before the store:
\* x = x + 1 stores the old x plus one.
C19_AssignmentStores ==
    Ran("Assignment") =>
       /\ executed.sig \in {"value", "fault"}
       /\ executed.sig = "value" =>
             /\ closure = (CaseNode.var_ :> executed.val) @@ executed.before
             /\ closure[CaseNode.var_] = executed.val
       /\ executed.sig = "fault" =>
             /\ closure = executed.before
             /\ CaseNode.var_ \notin DOMAIN executed.before =>
                   CaseNode.var_ \notin DOMAIN closure
       /\ CaseNode = AssignmentCases[3] /\ TryAs(Before("x"), "Number") =>
             /\ executed.sig = "value"
             /\ closure["x"] = Number(Before("x").v + 1)
       /\ CaseNode \in {AssignmentCases[4], AssignmentCases[5],
                        AssignmentCases[7]} => executed.sig = "fault"

\* C19 witness: z = missing has run in a closure without z.
C19_Witness ==
    /\ executed.stmt # 0
    /\ CaseNode = AssignmentCases[4]
    /\ "z" \notin DOMAIN executed.before
    /\ executed.sig = "fault"
    /\ "x" \in DOMAIN closure

\* C20: print writes, argument by argument from the left, a space before
\* every argument but the first, then what evaluating the argument writes,
\* then the argument (None for an empty holder), and a line feed at the
\* end, and returns the last value:
\*   print                          writes LF
\*   print 1                        writes 1
\*   print None, False              writes None False
\*   print 1, k.noisy(), None, "a"  writes 1, a space, the n of noisy() on
\*                                  its line, then True None a
\*   print k.noisy(), k.noisy()     writes n, True and a space, n, True
C20_PrintInterleaves ==
    Ran("Print") /\ Before("k") = Instance(1) =>
       /\ executed.sig = "value"
       /\ CaseNode = PrintCases[1] =>
             executed.out = "\n" /\ executed.val = None
       /\ CaseNode = PrintCases[2] =>
             executed.out = "1\n" /\ executed.val = Number(1)
       /\ CaseNode = PrintCases[3] =>
             executed.out = "None False\n" /\ executed.val = Bool(FALSE)
       /\ CaseNode = PrintCases[4] =>
             /\ executed.out = "1 n\nTrue None a\n"
             /\ executed.val = String("a")
       /\ CaseNode = PrintCases[5] =>
             /\ executed.out = "n\nTrue n\nTrue\n"
             /\ executed.val = Bool(TRUE)

\* C20 witness: print 1, k.noisy(), None, "a" has run.
C20_Witness ==
    /\ executed.stmt # 0
    /\ CaseNode = PrintCases[4]
    /\ executed.sig = "value"
    /\ LogAt("call") # {}

(***************************************************************************)
(* Lexer::Expect and Lexer::ExpectNext with a value (lexer.h), and the     *)
(* lexer driven over one-line texts of token characters.                   *)
(***************************************************************************)
\* Expect<T>(value): the value is compared only when the current token is a T.
Expect(L, T, value) ==
    IF Is(CurrentToken(L), T)
      THEN IF CurrentToken(L).value # value THEN Throw(L, "LexerError") ELSE L
      ELSE L

\* ExpectNext<T>(value): Token token = NextToken(), then the same test on token.
ExpectNext(L, T, value, eq_garbage) ==
    The({IF N.thrown # "none" THEN N ELSE Expect(N, T, value) :
            N \in {NextToken(L, eq_garbage)}})

\* No token was examined: NextToken raised inside ExpectNext.
NoToken == Tok("")

\* A call of Expect<T>(value) by the parser.
ExpectCall(T, value) ==
    /\ constructed
    /\ thrown = "none"
    /\ SetLexer(Expect(LexerObject, T, value))
    /\ expected' = [fn |-> "Expect", T |-> T, value |-> value,
                    token |-> CurrentToken(LexerObject)]
    /\ UNCHANGED <<text, constructed, eof_calls>>
    /\ UNCHANGED <<classvars, evalvars>>

\* A call of ExpectNext<T>(value) by the parser.
ExpectNextCall(T, value) ==
    /\ constructed
    /\ thrown = "none"
    /\ AtEof => eof_calls < MaxEofCalls
    /\ \E eq_garbage \in BOOLEAN :
         \E N \in {NextToken(LexerObject, eq_garbage)} :
            /\ SetLexer(IF N.thrown # "none" THEN N ELSE Expect(N, T, value))
            /\ expected' = [fn |-> "ExpectNext", T |-> T, value |-> value,
                            token |-> IF N.thrown # "none" THEN NoToken
                                      ELSE CurrentToken(N)]
    /\ eof_calls' = IF AtEof THEN eof_calls + 1 ELSE eof_calls
    /\ UNCHANGED <<text, constructed>>
    /\ UNCHANGED <<classvars, evalvars>>

\* The characters of the one-line texts and the longest line.
TokenChars == {"a", "1", "=", "'", ",", "\n"}
MaxBody == 3

RECURSIVE Bodies(_)
Bodies(n) ==
    IF n = 0 THEN {<<>>}
    ELSE Bodies(n - 1) \cup {Append(b, c) : b \in Bodies(n - 1), c \in TokenChars}

\* A line feed is a character of the line, so no line feed is added.
TokenTexts ==
    {[lines |-> <<[sp |-> 0, body |-> b]>>, final_nl |-> FALSE] :
        b \in Bodies(MaxBody)}

\* The values the parser expects, by token type.
IdValues == {<<"a">>}
NumberValues == {1}
StringValues == {<<"a">>}
CharValues == {","}

TokenInit ==
    /\ text \in TokenTexts
    /\ input_ = IStream(Chars(text.lines, text.final_nl))
    /\ c_ = NoChar
    /\ doc_ = <<>>
    /\ last_indent_ = 0
    /\ dedent_chain_ = FALSE
    /\ thrown = "none"
    /\ constructed = FALSE
    /\ eof_calls = 0
    /\ expected = NoExpect
    /\ ClassIdle
    /\ EvalIdle

ExpectId == \E v \in IdValues : ExpectCall("Id", v)
ExpectNumber == \E v \in NumberValues : ExpectCall("Number", v)
ExpectString == \E v \in StringValues : ExpectCall("String", v)
ExpectChar == \E v \in CharValues : ExpectCall("Char", v)
ExpectNextId == \E v \in IdValues : ExpectNextCall("Id", v)
ExpectNextNumber == \E v \in NumberValues : ExpectNextCall("Number", v)
ExpectNextString == \E v \in StringValues : ExpectNextCall("String", v)
ExpectNextChar == \E v \in CharValues : ExpectNextCall("Char", v)

TokenNext ==
    \/ LexerNew
    \/ NextTokenCall
    \/ ExpectId
    \/ ExpectNumber
    \/ ExpectString
    \/ ExpectChar
    \/ ExpectNextId
    \/ ExpectNextNumber
    \/ ExpectNextString
    \/ ExpectNextChar

TokenSpec == TokenInit /\ [][TokenNext]_vars

(***************************************************************************)
(* Properties of the lexer over one-line texts and of Expect.              *)
(***************************************************************************)
\* The characters of the one line of a text of TokenSpec.
Body == text.lines[1].body

IdChars == Letters \cup Digits \cup {"_"}

\* The length of the longest run of characters of set that starts at s[p].
RECURSIVE RunFrom(_, _, _)
RunFrom(s, p, set) ==
    IF p > Len(s) \/ s[p] \notin set THEN 0 ELSE 1 + RunFrom(s, p + 1, set)

\* C21: an Id lexeme is a letter or underscore followed by letters, digits and
\* underscores only; a text that begins with such a run followed by '=' or a
\* quote gives the Id of the run as its first token, without an error.
C21_IdLexemeEnds ==
    /\ \A i \in 1 .. Len(doc_) :
          Is(doc_[i], "Id") =>
              \A j \in 1 .. Len(doc_[i].value) : doc_[i].value[j] \in IdChars
    /\ (constructed /\ Body # <<>> /\ Body[1] = "a") =>
          LET run == RunFrom(Body, 1, IdChars)
          IN  /\ thrown = "none"
              /\ doc_ # <<>>
              /\ doc_[1] = TokV("Id", SubSeq(Body, 1, run))

\* The index of the first c in s after position p, or 0.
RECURSIVE IndexAfter(_, _, _)
IndexAfter(s, p, c) ==
    IF p >= Len(s) THEN 0
    ELSE IF s[p + 1] = c THEN p + 1
    ELSE IndexAfter(s, p + 1, c)

\* A text that opens a string which is not closed before the line ends.
OpensUnclosedString ==
    /\ Body # <<>>
    /\ Body[1] = "'"
    /\ \/ IndexAfter(Body, 1, "'") = 0
       \/ /\ IndexAfter(Body, 1, "\n") # 0
          /\ IndexAfter(Body, 1, "\n") < IndexAfter(Body, 1, "'")

\* C22: a string literal closes on the line it opens on: when a line feed or
\* the end of input comes before the closing delimiter the lexer raises
\* LexerError and emits no String token.
C22_StringClosesOnLine ==
    (constructed /\ OpensUnclosedString) =>
        /\ thrown = "LexerError"
        /\ CountIn(doc_, "String") = 0

\* The content lines of the text up to line k.
ContentUpTo(k) == {i \in 1 .. k : IsContent(text.lines[i])}

\* The content lines with an odd number of leading spaces.
OddLines ==
    {k \in 1 .. Len(text.lines) :
        IsContent(text.lines[k]) /\ text.lines[k].sp % 2 = 1}

FirstOddLine == CHOOSE k \in OddLines : \A j \in OddLines : k <= j

\* C23: a non-blank line with an odd number of leading spaces raises
\* LexerError at every indent level: the lexer never gets past such a line,
\* and no content token of the line is emitted.
C23_OddIndentRaises ==
    OddLines # {} =>
        /\ NumIds < Cardinality(ContentUpTo(FirstOddLine))
        /\ ~AtEof
        /\ (NumIds = Cardinality(ContentUpTo(FirstOddLine)) - 1 /\ thrown # "none")
              => thrown = "LexerError"

\* Whether Expect<T>(value) is satisfied by the token.
Satisfies(token, T, value) == Is(token, T) /\ token.value = value

\* C24: Expect<T>(value) and ExpectNext<T>(value) raise LexerError when the
\* token examined is not a T or is a T with another value, and return
\* normally only for a T with the value.
C24_ExpectRaises ==
    (expected.fn # "none" /\ expected.token # NoToken) =>
        IF Satisfies(expected.token, expected.T, expected.value)
        THEN thrown = "none"
        ELSE thrown = "LexerError"

\* C25: constructing a Lexer leaves doc_ non-empty or fails with LexerError;
\* nothing but LexerError ever escapes the lexer.
C25_ConstructorDefined ==
    /\ thrown \in {"none", "LexerError"}
    /\ constructed => (doc_ # <<>> \/ thrown = "LexerError")

\* C29: a text that begins with digits gives the Number of the longest run of
\* digits as its first token when '=', ',' or the end of the line follows
\* the run, and LexerError when a letter follows it.
C29_NumberLexemeEnds ==
    (constructed /\ Body # <<>> /\ Body[1] = "1") =>
        LET run == RunFrom(Body, 1, Digits)
        IN  IF run < Len(Body) /\ Body[run + 1] \in Letters
            THEN thrown = "LexerError" /\ doc_ = <<>>
            ELSE (run = Len(Body) \/ Body[run + 1] \in {"=", ",", "\n"}) =>
                    /\ thrown = "none"
                    /\ doc_ # <<>>
                    /\ doc_[1] = TokV("Number", stoi(SubSeq(Body, 1, run)))

(***************************************************************************)
(* Properties of programs of one statement (the Compound cases) and of     *)
(* method resolution by name.                                              *)
(***************************************************************************)
\* The statement of the program executed last.
Inner == CaseNode.args_[1]

\* The program executed last consists of one statement of class t.
RanProgram(t) == Ran("Compound") /\ Inner.t = t

\* The methods whose bodies the statement itself entered, in order.
CallOrder ==
    LET at == SelectSeq([i \in 1 .. Len(executed.log) |-> i],
                        LAMBDA i : executed.log[i].e = "call"
                                   /\ executed.log[i].d = 1)
    IN  [j \in 1 .. Len(at) |-> executed.log[at[j]].t]

\* The class object printed by print v or str(v).
PrintedClass ==
    Before((IF Inner.t = "Print" THEN Inner.args_[1] ELSE Inner.argument_)
               .dotted_ids_[1])

\* C26: print of a class object writes Class, a space and the name of the
\* class, whatever the name is, the empty name included, and throws
\* nothing; so does str().
C26_ClassPrints ==
    (RanProgram("Print") \/ RanProgram("Stringify")) /\ TryAs(PrintedClass, "Class") =>
        /\ executed.sig = "value"
        /\ LogAt("fault") = {}
        /\ RanProgram("Print") =>
              executed.out = "Class " \o classes[PrintedClass.v].name_ \o "\n"

\* C27: a method call executes its object expression first, then its
\* arguments from left to right, each once, and then enters the method: for
\* w.me().set(w.noisy(), w.loud()) the bodies entered are me, noisy, loud,
\* set in this order, and r, n, m are written in this order.
C27_ReceiverFirst ==
    RanProgram("MethodCall") =>
        /\ CallOrder = <<Inner.object_.method_>>
                       \o [i \in 1 .. Len(Inner.args_) |-> Inner.args_[i].method_]
                       \o <<Inner.method_>>
        /\ CaseNode = OrderCases[1] => executed.out = "r\nn\nm\n"

\* How often one execution of the Add executed the operand: the bodies
\* entered for a call operand, the Execute calls for a constant.
Evaluations(operand) ==
    IF operand.t = "MethodCall"
    THEN Cardinality({i \in LogAt("call") :
            executed.log[i].d = 1 /\ executed.log[i].t = operand.method_})
    ELSE Cardinality({i \in LogAt("exec") :
            executed.log[i].d = 0 /\ executed.log[i].t = operand.t})

\* How many of the two operands of the Add are this expression or, for
\* constants, of its class.
Operands2(operand) ==
    Cardinality({side \in {"lhs_", "rhs_"} :
        IF operand.t = "MethodCall" THEN Inner[side] = operand
        ELSE Inner[side].t = operand.t})

\* C28: one execution of an Add executes its left operand once and its right
\* operand once, for two Numbers, two Strings, an instance with __add__ and
\* operands that cannot be added; what an operand writes is written once.
C28_AddOperandsOnce ==
    RanProgram("Add") =>
        /\ Evaluations(Inner.lhs_) = Operands2(Inner.lhs_)
        /\ Evaluations(Inner.rhs_) = Operands2(Inner.rhs_)
        /\ CaseNode = AddCases[1] => executed.out = "m\n"
        /\ CaseNode = AddCases[3] => executed.out = "r\nm\n"
        /\ CaseNode = AddCases[4] => executed.out = "m\n"

\* The class of the receiver of the call statement executed last.
ReceiverClass == instances[Receiver.v].cls_

\* C30: HasMethod(name, n) holds exactly when the nearest class on the path
\* self, parent, ... that declares name declares it with n parameters.  A
\* call with n arguments of a name that an ancestor declares with n
\* parameters and a nearer class with another number throws runtime_error
\* and enters no body; a call that matches the nearest declaration enters
\* that declaration's body.
C30_NearestArityDecides ==
    Ran("MethodCall") /\ TryAs(Receiver, "Instance") =>
        /\ HasMethod(ReceiverClass, CaseNode.method_, Len(CaseNode.args_))
              <=> Callable(ReceiverClass, CaseNode.method_, Len(CaseNode.args_))
        /\ ~Callable(ReceiverClass, CaseNode.method_, Len(CaseNode.args_)) =>
              /\ executed.sig = "fault"
              /\ CallOrder = <<>>
        /\ Callable(ReceiverClass, CaseNode.method_, Len(CaseNode.args_)) =>
              /\ CallOrder # <<>>
              /\ CallOrder[1] = CaseNode.method_
              /\ DOMAIN executed.log[Min(LogAt("call"))].val =
                    {"self"} \cup Range(DeclaredParams(ReceiverClass,
                                                       CaseNode.method_))

\* C30 witness: w.get() has thrown although Base, an ancestor of Wide,
\* declares get() without parameters; Wide declares get(a).
C30_Witness ==
    /\ executed.stmt # 0
    /\ CaseNode = ArityCases[1]
    /\ Receiver = Instance(4)
    /\ ArityOnPath("Wide", "get", 0)
    /\ Nearest("Wide", "get") = "Wide"
    /\ executed.sig = "fault"
    /\ LogAt("call") = {}

====
